---- MODULE Spec2Model ----
(***************************************************************************)
(* autosuspend: the idle-detection and suspend-orchestration core.         *)
(*                                                                         *)
(* The model follows src/src/autosuspend/__init__.py: the two aggregators  *)
(* execute_checks and execute_wakeups, and Processor.iteration, driven by  *)
(* the daemon's loop, which calls iteration once per pass and does not     *)
(* catch what escapes from it.  Time is in whole seconds.                  *)
(***************************************************************************)
EXTENDS Integers, Sequences, FiniteSets, TLC

\* ------------------------------------------------------------------ bounds

\* Tick timestamps range over 0..MaxTime.
MaxTime == 3

\* A wake-up probe answers with an instant at most MaxAhead seconds after
\* the tick (offset 0 is an instant that is not in the future).
MaxAhead == 2

\* The configured thresholds, in seconds: general.idle_time is in
\* 0..MaxIdleTime, general.min_sleep_time in 0..MaxMinSleepTime and
\* general.wakeup_delta in 0..MaxWakeupDelta.
MaxIdleTime == 1

MaxMinSleepTime == 1

MaxWakeupDelta == 1

\* The aggregators are also applied on their own to probe lists of up to
\* MaxProbes probes.
MaxProbes == 3

\* A configuration file has at most MaxSections check sections.
MaxSections == 2

\* run_for, when given, is 0..MaxRunFor seconds.
MaxRunFor == 2

\* The configured probe lists, by name, in configuration order.
ActivityNames == <<"a1", "a2">>
WakeupNames == <<"w1", "w2">>

\* ------------------------------------------------------------------ values

\* Optional[datetime]: None is the empty sequence, a value t is <<t>>.
None == <<>>

Some(t) == <<t>>

\* What one call of Activity.check() can do: return None, return a reason,
\* raise TemporaryCheckError, raise SevereCheckError.
ActivityOutcomes == {"None", "Reason", "Temporary", "Severe"}

\* One entry of the per-tick call log: a probe's check() or a callback.
Call(fn, arg) == [fn |-> fn, arg |-> arg]

VARIABLES
    cfg,          \* idle_time, min_sleep_time, wakeup_delta, all_activities
    idle_since,   \* Processor._idle_since
    pc,           \* where loop() is: "iterate", "sleep", or "crashed" once
                  \* an exception has escaped from it; "unit" and "returned"
                  \* around a function applied on its own
    clock,        \* the last reading of the clock handed to iteration
    tick,         \* the inputs of the iteration of the current pass
    calls,        \* what that iteration invoked, in order
    prev_blocked, \* the iteration of the pass before was stopped by the
                  \* minimum sleep time
    call,         \* a function of the module applied on its own: its name,
                  \* its arguments and what it gave
    general,      \* which of notify_cmd_wakeup and notify_cmd_no_wakeup are
                  \* configured (not None)
    shell,        \* the shell commands the callbacks of the pass ran, in
                  \* order, with their exit codes
    prev_failed,  \* the suspend command of the pass before exited non-zero
    woke_up_file, \* the file named by woke_up_file exists
    loop_locals,  \* loop()'s run_for, start_time and just_woke_up, and what
                  \* happened to the file since the pass tested for it
    prev_tick     \* the pass before, where remembered: its just_woke_up,
                  \* whether it found activity, and _idle_since before it

vars ==
    <<cfg, idle_since, pc, clock, tick, calls, prev_blocked, call, general,
      shell, prev_failed, woke_up_file, loop_locals, prev_tick>>

\* ------------------------------------------------------------ aggregators

Min(a, b) == IF a <= b THEN a ELSE b

\* CheckBody with TemporaryCheckError not caught.
CheckBodyTemporaryRaises(outcome, all_checks, matched) ==
    CASE outcome = "Reason" ->
           [matched |-> TRUE,
            next |-> IF all_checks THEN "continue" ELSE "break"]
      [] outcome = "None" -> [matched |-> matched, next |-> "continue"]
      [] outcome = "Temporary" -> [matched |-> matched, next |-> "raise"]
      [] outcome = "Severe" -> [matched |-> matched, next |-> "raise"]

\* The body of execute_checks' loop for one probe whose check() does
\* `outcome`: the new value of `matched`, and how the loop goes on.  Only
\* TemporaryCheckError is caught; SevereCheckError leaves the function.
CheckBody(outcome, all_checks, matched) ==
    CASE outcome = "Reason" ->
           [matched |-> TRUE,
            next |-> IF all_checks THEN "continue" ELSE "break"]
      [] outcome = "None" -> [matched |-> matched, next |-> "continue"]
      [] outcome = "Temporary" -> [matched |-> matched, next |-> "continue"]
      [] outcome = "Severe" -> [matched |-> matched, next |-> "raise"]

\* execute_checks from probe i on: probes are called in list order, each
\* call is logged, and the result is `matched` or the escaping exception.
RECURSIVE ExecuteChecksFrom(_, _, _, _, _)
ExecuteChecksFrom(outcomes, all_checks, i, matched, log) ==
    IF i > Len(outcomes)
    THEN [matched |-> matched, raised |-> FALSE, log |-> log]
    ELSE LET b == CheckBody(outcomes[i], all_checks, matched)
             l == Append(log, Call("check", Some(i)))
         IN  CASE b.next = "raise" ->
                    [matched |-> b.matched, raised |-> TRUE, log |-> l]
               [] b.next = "break" ->
                    [matched |-> b.matched, raised |-> FALSE, log |-> l]
               [] b.next = "continue" ->
                    ExecuteChecksFrom(outcomes, all_checks, i + 1, b.matched, l)

execute_checks(outcomes, all_checks, log) ==
    ExecuteChecksFrom(outcomes, all_checks, 1, FALSE, log)

\* WakeupBody with an instant equal to `timestamp` taken as a wake up.
WakeupBodyKeepsNow(outcome, timestamp, wakeup_at) ==
    CASE outcome.k = "None" -> [wakeup_at |-> wakeup_at, next |-> "continue"]
      [] outcome.k = "Temporary" ->
           [wakeup_at |-> wakeup_at, next |-> "continue"]
      [] outcome.k = "Severe" -> [wakeup_at |-> wakeup_at, next |-> "raise"]
      [] outcome.k = "At" ->
           IF outcome.at < timestamp
           THEN [wakeup_at |-> wakeup_at, next |-> "continue"]
           ELSE IF wakeup_at = None
                THEN [wakeup_at |-> Some(outcome.at), next |-> "continue"]
                ELSE [wakeup_at |-> Some(Min(outcome.at, wakeup_at[1])),
                      next |-> "continue"]

\* The body of execute_wakeups' loop for one probe: the new wakeup_at.
\* None and instants not after `timestamp` are skipped, the rest are folded
\* with min; TemporaryCheckError is caught, SevereCheckError is not.
WakeupBody(outcome, timestamp, wakeup_at) ==
    CASE outcome.k = "None" -> [wakeup_at |-> wakeup_at, next |-> "continue"]
      [] outcome.k = "Temporary" ->
           [wakeup_at |-> wakeup_at, next |-> "continue"]
      [] outcome.k = "Severe" -> [wakeup_at |-> wakeup_at, next |-> "raise"]
      [] outcome.k = "At" ->
           IF outcome.at <= timestamp
           THEN [wakeup_at |-> wakeup_at, next |-> "continue"]
           ELSE IF wakeup_at = None
                THEN [wakeup_at |-> Some(outcome.at), next |-> "continue"]
                ELSE [wakeup_at |-> Some(Min(outcome.at, wakeup_at[1])),
                      next |-> "continue"]

RECURSIVE ExecuteWakeupsFrom(_, _, _, _, _)
ExecuteWakeupsFrom(outcomes, timestamp, i, wakeup_at, log) ==
    IF i > Len(outcomes)
    THEN [wakeup_at |-> wakeup_at, raised |-> FALSE, log |-> log]
    ELSE LET b == WakeupBody(outcomes[i], timestamp, wakeup_at)
             l == Append(log, Call("wakeup", Some(i)))
         IN  IF b.next = "raise"
             THEN [wakeup_at |-> b.wakeup_at, raised |-> TRUE, log |-> l]
             ELSE ExecuteWakeupsFrom(outcomes, timestamp, i + 1, b.wakeup_at, l)

execute_wakeups(outcomes, timestamp, log) ==
    ExecuteWakeupsFrom(outcomes, timestamp, 1, None, log)

\* -------------------------------------------------------------- Processor

\* WithDelta without the subtraction.
WithDeltaIgnored(wakeup_at, wakeup_delta) == wakeup_at

\* wakeup_at -= timedelta(seconds=wakeup_delta), when there is a wakeup_at.
WithDelta(wakeup_at, wakeup_delta) ==
    IF wakeup_at = None THEN None ELSE Some(wakeup_at[1] - wakeup_delta)

\* IdleLongEnough with >= for >.
IdleLongEnoughOrEqual(timestamp, since, idle_time) ==
    timestamp - since >= idle_time

\* (timestamp - idle_since).total_seconds() > idle_time
IdleLongEnough(timestamp, since, idle_time) == timestamp - since > idle_time

\* (wakeup_at - timestamp).total_seconds() < min_sleep_time
BelowMinSleepOrEqual(wakeup_at, timestamp, min_sleep_time) ==
    wakeup_at - timestamp <= min_sleep_time

BelowMinSleep(wakeup_at, timestamp, min_sleep_time) ==
    wakeup_at - timestamp < min_sleep_time

\* Suspension without the call of wakeup_fn.
SuspensionNoSchedule(since, wakeup_at, timestamp, min_sleep_time, log) ==
    IF wakeup_at # None /\ BelowMinSleep(wakeup_at[1], timestamp, min_sleep_time)
    THEN [idle_since |-> since, raised |-> FALSE, log |-> log]
    ELSE [idle_since |-> None, raised |-> FALSE,
          log |-> log
                  \o <<Call("_reset_state", None), Call("sleep_fn", wakeup_at)>>]

\* Suspension with sleep_fn called before wakeup_fn.
SuspensionSleepFirst(since, wakeup_at, timestamp, min_sleep_time, log) ==
    IF wakeup_at # None /\ BelowMinSleep(wakeup_at[1], timestamp, min_sleep_time)
    THEN [idle_since |-> since, raised |-> FALSE, log |-> log]
    ELSE [idle_since |-> None, raised |-> FALSE,
          log |-> log
                  \o <<Call("_reset_state", None), Call("sleep_fn", wakeup_at)>>
                  \o (IF wakeup_at # None
                      THEN <<Call("wakeup_fn", wakeup_at)>> ELSE <<>>)]

\* Suspension with the state reset when the wake up is too close.
SuspensionResetOnFloor(since, wakeup_at, timestamp, min_sleep_time, log) ==
    IF wakeup_at # None /\ BelowMinSleep(wakeup_at[1], timestamp, min_sleep_time)
    THEN [idle_since |-> None, raised |-> FALSE,
          log |-> Append(log, Call("_reset_state", None))]
    ELSE [idle_since |-> None, raised |-> FALSE,
          log |-> log
                  \o (IF wakeup_at # None
                      THEN <<Call("wakeup_fn", wakeup_at)>> ELSE <<>>)
                  \o <<Call("_reset_state", None), Call("sleep_fn", wakeup_at)>>]

\* Suspension with _idle_since kept when going to suspend.
SuspensionNoReset(since, wakeup_at, timestamp, min_sleep_time, log) ==
    IF wakeup_at # None /\ BelowMinSleep(wakeup_at[1], timestamp, min_sleep_time)
    THEN [idle_since |-> since, raised |-> FALSE, log |-> log]
    ELSE [idle_since |-> since, raised |-> FALSE,
          log |-> log
                  \o (IF wakeup_at # None
                      THEN <<Call("wakeup_fn", wakeup_at)>> ELSE <<>>)
                  \o <<Call("_reset_state", None), Call("sleep_fn", wakeup_at)>>]

\* The branch taken once the system is idle long enough: give up when the
\* wake up is too close, else schedule the wake up (if any), reset the
\* state and call the suspend callback with the wake up time.
Suspension(since, wakeup_at, timestamp, min_sleep_time, log) ==
    IF wakeup_at # None /\ BelowMinSleep(wakeup_at[1], timestamp, min_sleep_time)
    THEN [idle_since |-> since, raised |-> FALSE, log |-> log]
    ELSE [idle_since |-> None, raised |-> FALSE,
          log |-> log
                  \o (IF wakeup_at # None
                      THEN <<Call("wakeup_fn", wakeup_at)>> ELSE <<>>)
                  \o <<Call("_reset_state", None), Call("sleep_fn", wakeup_at)>>]

\* iteration with _idle_since set one second after the timestamp.
iterationIdleAhead(c, idle, timestamp, just_woke_up, acts, wakes) ==
    LET ac == execute_checks(acts, c.all_activities, <<>>)
    IN  IF ac.raised
        THEN [idle_since |-> idle, raised |-> TRUE, log |-> ac.log]
        ELSE
        LET wk == execute_wakeups(wakes, timestamp, ac.log)
            wakeup_at == WithDelta(wk.wakeup_at, c.wakeup_delta)
            since == IF idle = None THEN Some(timestamp + 1) ELSE idle
        IN  IF wk.raised
            THEN [idle_since |-> idle, raised |-> TRUE, log |-> wk.log]
            ELSE IF just_woke_up \/ ac.matched
            THEN [idle_since |-> None, raised |-> FALSE,
                  log |-> Append(wk.log, Call("_reset_state", None))]
            ELSE IF IdleLongEnough(timestamp, since[1], c.idle_time)
            THEN Suspension(since, wakeup_at, timestamp, c.min_sleep_time,
                            wk.log)
            ELSE [idle_since |-> since, raised |-> FALSE, log |-> wk.log]

\* iteration with execute_wakeups before execute_checks.
iterationWakeupsFirst(c, idle, timestamp, just_woke_up, acts, wakes) ==
    LET wk == execute_wakeups(wakes, timestamp, <<>>)
    IN  IF wk.raised
        THEN [idle_since |-> idle, raised |-> TRUE, log |-> wk.log]
        ELSE
        LET ac == execute_checks(acts, c.all_activities, wk.log)
            wakeup_at == WithDelta(wk.wakeup_at, c.wakeup_delta)
            since == IF idle = None THEN Some(timestamp) ELSE idle
        IN  IF ac.raised
            THEN [idle_since |-> idle, raised |-> TRUE, log |-> ac.log]
            ELSE IF just_woke_up \/ ac.matched
            THEN [idle_since |-> None, raised |-> FALSE,
                  log |-> Append(ac.log, Call("_reset_state", None))]
            ELSE IF IdleLongEnough(timestamp, since[1], c.idle_time)
            THEN Suspension(since, wakeup_at, timestamp, c.min_sleep_time,
                            ac.log)
            ELSE [idle_since |-> since, raised |-> FALSE, log |-> ac.log]

\* iteration with _idle_since kept on a resume and on activity.
iterationNoReset(c, idle, timestamp, just_woke_up, acts, wakes) ==
    LET ac == execute_checks(acts, c.all_activities, <<>>)
    IN  IF ac.raised
        THEN [idle_since |-> idle, raised |-> TRUE, log |-> ac.log]
        ELSE
        LET wk == execute_wakeups(wakes, timestamp, ac.log)
            wakeup_at == WithDelta(wk.wakeup_at, c.wakeup_delta)
            since == IF idle = None THEN Some(timestamp) ELSE idle
        IN  IF wk.raised
            THEN [idle_since |-> idle, raised |-> TRUE, log |-> wk.log]
            ELSE IF just_woke_up \/ ac.matched
            THEN [idle_since |-> idle, raised |-> FALSE,
                  log |-> Append(wk.log, Call("_reset_state", None))]
            ELSE IF IdleLongEnough(timestamp, since[1], c.idle_time)
            THEN Suspension(since, wakeup_at, timestamp, c.min_sleep_time,
                            wk.log)
            ELSE [idle_since |-> since, raised |-> FALSE, log |-> wk.log]

\* Processor.iteration(timestamp, just_woke_up) from _idle_since = idle,
\* with the probes behaving as `acts` and `wakes` say: the new _idle_since,
\* the calls made, and whether an exception escaped.
iterationResetFirst(c, idle, timestamp, just_woke_up, acts, wakes) ==
    LET ac == execute_checks(acts, c.all_activities, <<>>)
        kept == IF just_woke_up THEN None ELSE idle
    IN  IF ac.raised
        THEN [idle_since |-> kept, raised |-> TRUE, log |-> ac.log]
        ELSE
        LET wk == execute_wakeups(wakes, timestamp, ac.log)
            wakeup_at == WithDelta(wk.wakeup_at, c.wakeup_delta)
            since == IF idle = None THEN Some(timestamp) ELSE idle
        IN  IF wk.raised
            THEN [idle_since |-> kept, raised |-> TRUE, log |-> wk.log]
            ELSE IF just_woke_up \/ ac.matched
            THEN [idle_since |-> None, raised |-> FALSE,
                  log |-> Append(wk.log, Call("_reset_state", None))]
            ELSE IF IdleLongEnough(timestamp, since[1], c.idle_time)
            THEN Suspension(since, wakeup_at, timestamp, c.min_sleep_time,
                            wk.log)
            ELSE [idle_since |-> since, raised |-> FALSE, log |-> wk.log]

iteration(c, idle, timestamp, just_woke_up, acts, wakes) ==
    LET ac == execute_checks(acts, c.all_activities, <<>>)
    IN  IF ac.raised
        THEN [idle_since |-> idle, raised |-> TRUE, log |-> ac.log]
        ELSE
        LET wk == execute_wakeups(wakes, timestamp, ac.log)
            wakeup_at == WithDelta(wk.wakeup_at, c.wakeup_delta)
            since == IF idle = None THEN Some(timestamp) ELSE idle
        IN  IF wk.raised
            THEN [idle_since |-> idle, raised |-> TRUE, log |-> wk.log]
            ELSE IF just_woke_up \/ ac.matched
            THEN [idle_since |-> None, raised |-> FALSE,
                  log |-> Append(wk.log, Call("_reset_state", None))]
            ELSE IF IdleLongEnough(timestamp, since[1], c.idle_time)
            THEN Suspension(since, wakeup_at, timestamp, c.min_sleep_time,
                            wk.log)
            ELSE [idle_since |-> since, raised |-> FALSE, log |-> wk.log]

\* ------------------------------------------------------ external effects

\* Exit codes of a shell command: 0, or non-zero (CalledProcessError).
ExitCodes == {0, 1}

\* One subprocess.check_call(command, shell=True) and its exit code.
Run(cmd, at, rc) == [cmd |-> cmd, at |-> at, rc |-> rc]

\* execute_suspend: runs the suspend command; CalledProcessError is caught.
execute_suspend(wakeup_at, rc) ==
    [ran |-> <<Run("suspend_cmd", None, rc)>>, raised |-> FALSE]

\* safe_exec with CalledProcessError not caught.
safe_execUncaught(cmd, wakeup_at, rc) ==
    [ran |-> <<Run(cmd, wakeup_at, rc)>>, raised |-> rc # 0]

\* notify_suspend's safe_exec: runs the command; CalledProcessError is
\* caught.
safe_exec(cmd, wakeup_at, rc) ==
    [ran |-> <<Run(cmd, wakeup_at, rc)>>, raised |-> FALSE]

\* notify_suspend: the wake up template when there is a wake up and the
\* template is configured, the no-wake-up command when there is no wake up
\* and that command is configured, nothing otherwise.
notify_suspend(g, wakeup_at, rc) ==
    IF wakeup_at # None /\ g.notify_cmd_wakeup
    THEN safe_exec("notify_cmd_wakeup", wakeup_at, rc)
    ELSE IF wakeup_at = None /\ g.notify_cmd_no_wakeup
    THEN safe_exec("notify_cmd_no_wakeup", None, rc)
    ELSE [ran |-> <<>>, raised |-> FALSE]

\* notify_and_suspend: notify_suspend, then execute_suspend.
notify_and_suspend(g, wakeup_at, rcs) ==
    LET n == notify_suspend(g, wakeup_at, rcs.notify)
        x == execute_suspend(wakeup_at, rcs.suspend)
    IN  IF n.raised THEN n
        ELSE [ran |-> n.ran \o x.ran, raised |-> x.raised]

\* schedule_wakeup with CalledProcessError not caught.
schedule_wakeupUncaught(wakeup_at, rc) ==
    [ran |-> <<Run("wakeup_cmd", wakeup_at, rc)>>, raised |-> rc # 0]

\* schedule_wakeup: runs the formatted wake up command; CalledProcessError
\* is caught.
schedule_wakeup(wakeup_at, rc) ==
    [ran |-> <<Run("wakeup_cmd", wakeup_at, rc)>>, raised |-> FALSE]

\* The callbacks main() hands to the Processor, run where the iteration
\* result r calls them (r.log[i] on): wakeup_fn is schedule_wakeup and
\* sleep_fn is notify_and_suspend.  An exception escaping from a callback
\* would end the iteration there, with _idle_since as it is at that point.
RECURSIVE RunCallbacksFrom(_, _, _, _, _, _)
RunCallbacksFrom(r, since, g, rcs, i, ran) ==
    IF i > Len(r.log)
    THEN [idle_since |-> r.idle_since, raised |-> r.raised, log |-> r.log,
          shell |-> ran]
    ELSE LET c == r.log[i]
             x == CASE c.fn = "wakeup_fn" -> schedule_wakeup(c.arg, rcs.wakeup)
                    [] c.fn = "sleep_fn" -> notify_and_suspend(g, c.arg, rcs)
                    [] OTHER -> [ran |-> <<>>, raised |-> FALSE]
         IN  IF x.raised
             THEN [idle_since |->
                      IF \E k \in 1..i : r.log[k].fn = "_reset_state"
                      THEN None ELSE since,
                   raised |-> TRUE, log |-> SubSeq(r.log, 1, i),
                   shell |-> ran \o x.ran]
             ELSE RunCallbacksFrom(r, since, g, rcs, i + 1, ran \o x.ran)

\* The exit codes the commands of the calls in `log` can give.
ExitCodesOf(log, g) ==
    LET has(fn) == \E i \in DOMAIN log : log[i].fn = fn
    IN  [wakeup : IF has("wakeup_fn") THEN ExitCodes ELSE {0},
         notify : IF has("sleep_fn")
                     /\ (g.notify_cmd_wakeup \/ g.notify_cmd_no_wakeup)
                  THEN ExitCodes ELSE {0},
         suspend : IF has("sleep_fn") THEN ExitCodes ELSE {0}]

\* ------------------------------------------------- reading the last tick

\* The loop is still running: no exception has escaped from iteration.
running == pc # "crashed"

\* The positions in the call log of the calls of `fn`.
Called(fn) == {i \in DOMAIN calls : calls[i].fn = fn}

\* The probes (by place in their list) whose check() was called.
Invoked(fn) == {calls[i].arg[1] : i \in Called(fn)}

\* The activity probes of the tick whose outcome is a reason.
Reasons == {i \in DOMAIN tick.acts : tick.acts[i] = "Reason"}

\* The instants after the tick's timestamp that the wake-up probes answer.
FutureWakeups ==
    {tick.wakes[j].at : j \in {x \in DOMAIN tick.wakes :
        tick.wakes[x].k = "At" /\ tick.wakes[x].at > tick.timestamp}}

SetMin(S) == CHOOSE m \in S : \A x \in S : m <= x

\* The command `cmd` was run on the pass and exited non-zero.
CommandFailed(cmd) ==
    \E k \in DOMAIN shell : shell[k].cmd = cmd /\ shell[k].rc # 0

\* Seconds of idleness the tick compares with idle_time.
IdleSeconds ==
    IF tick.pre_idle = None THEN 0 ELSE tick.timestamp - tick.pre_idle[1]

\* The tick found the system idle long enough and a wake up closer than the
\* minimum sleep time.
BlockedByFloor ==
    /\ tick.valid /\ running
    /\ ~tick.just_woke_up
    /\ Reasons = {}
    /\ IdleSeconds > cfg.idle_time
    /\ FutureWakeups # {}
    /\ (SetMin(FutureWakeups) - cfg.wakeup_delta) - tick.timestamp
         < cfg.min_sleep_time

\* ---------------------------------------------------------- the machine

Configs ==
    [idle_time : 0..MaxIdleTime, min_sleep_time : 0..MaxMinSleepTime,
     wakeup_delta : 0..MaxWakeupDelta, all_activities : BOOLEAN]

NoCall == [fn |-> "", args |-> <<>>, result |-> <<>>]

\* loop() before its first pass, called without run_for.
NoLoop ==
    [run_for |-> None, start_time |-> 0, just_woke_up |-> FALSE,
     removed |-> FALSE, remove_failed |-> FALSE, written |-> FALSE]

\* No pass before, or none remembered.
NoPrev ==
    [valid |-> FALSE, just_woke_up |-> FALSE, active |-> FALSE,
     pre_idle |-> None, quiet |-> 0, first_quiet |-> None]

NoTick ==
    [valid |-> FALSE, timestamp |-> 0, just_woke_up |-> FALSE,
     acts |-> <<>>, wakes |-> <<>>, pre_idle |-> None]

Init ==
    /\ cfg \in Configs
    /\ idle_since = None
    /\ pc = "iterate"
    /\ clock = 0
    /\ tick = NoTick
    /\ calls = <<>>
    /\ prev_blocked = FALSE
    /\ call = NoCall
    /\ general = [notify_cmd_wakeup |-> FALSE, notify_cmd_no_wakeup |-> FALSE]
    /\ shell = <<>>
    /\ prev_failed = FALSE
    /\ woke_up_file = FALSE
    /\ loop_locals = NoLoop
    /\ prev_tick = NoPrev

ActivityInputs == [DOMAIN ActivityNames -> ActivityOutcomes]

\* What one call of Wakeup.check(timestamp) can do: return None, return an
\* instant (here at most MaxAhead seconds after `timestamp`, and possibly
\* `timestamp` itself), raise TemporaryCheckError, raise SevereCheckError.
WakeupInputs(timestamp) ==
    [DOMAIN WakeupNames ->
        [k : {"None", "Temporary", "Severe"}, at : {0}]
        \cup [k : {"At"}, at : timestamp..(timestamp + MaxAhead)]]

\* One pass of the daemon's loop up to its sleep: Processor.iteration(
\* timestamp, just_woke_up), with the clock not running backwards and the
\* probes doing whatever they can do.  An exception escaping from it ends
\* the loop.
ProcessorIteration ==
    /\ pc = "iterate"
    /\ \E timestamp \in clock..MaxTime, just_woke_up \in BOOLEAN,
          acts \in ActivityInputs :
         \E wakes \in WakeupInputs(timestamp) :
            LET it == iteration(cfg, idle_since, timestamp, just_woke_up,
                                acts, wakes)
                since == IF idle_since = None
                         THEN Some(timestamp) ELSE idle_since
            IN  \E rcs \in ExitCodesOf(it.log, general) :
                  LET r == RunCallbacksFrom(it, since, general, rcs, 1, <<>>)
                  IN  /\ idle_since' = r.idle_since
                      /\ calls' = r.log
                      /\ shell' = r.shell
                      /\ pc' = IF r.raised THEN "crashed" ELSE "sleep"
                      /\ clock' = timestamp
                      /\ tick' = [valid |-> TRUE, timestamp |-> timestamp,
                                  just_woke_up |-> just_woke_up,
                                  acts |-> acts, wakes |-> wakes,
                                  pre_idle |-> idle_since]
    /\ UNCHANGED <<cfg, prev_blocked, call, general, prev_failed,
                   woke_up_file, loop_locals,
                   prev_tick>>

\* time.sleep(interval): the pass is over, the next one starts.
Sleep ==
    /\ pc = "sleep"
    /\ pc' = "iterate"
    /\ prev_blocked' = BlockedByFloor
    /\ prev_failed' = CommandFailed("suspend_cmd")
    /\ tick' = NoTick
    /\ calls' = <<>>
    /\ shell' = <<>>
    /\ UNCHANGED <<cfg, idle_since, clock, call, general, woke_up_file,
                   loop_locals,
                   prev_tick>>

Next == ProcessorIteration \/ Sleep

Spec == Init /\ [][Next]_vars

\* The daemon's loop with the pass before remembered: a Processor with any
\* idle_time, the other options fixed.
TickInit ==
    /\ Init
    /\ cfg.min_sleep_time = MaxMinSleepTime
    /\ cfg.wakeup_delta = 0
    /\ ~cfg.all_activities

\* Sleep, remembering the pass that ends.
SleepRemembering ==
    /\ pc = "sleep"
    /\ pc' = "iterate"
    /\ prev_blocked' = BlockedByFloor
    /\ prev_failed' = CommandFailed("suspend_cmd")
    /\ prev_tick' =
         LET broken == \/ tick.just_woke_up
                       \/ Reasons # {}
                       \/ Called("sleep_fn") # {}
         IN  [valid |-> TRUE, just_woke_up |-> tick.just_woke_up,
              active |-> Reasons # {}, pre_idle |-> tick.pre_idle,
              quiet |-> IF broken THEN 0 ELSE Min(prev_tick.quiet + 1, 2),
              first_quiet |-> IF broken THEN None
                              ELSE IF prev_tick.quiet = 0
                                   THEN Some(tick.timestamp)
                                   ELSE prev_tick.first_quiet]
    /\ tick' = NoTick
    /\ calls' = <<>>
    /\ shell' = <<>>
    /\ UNCHANGED <<cfg, idle_since, clock, call, general, woke_up_file,
                   loop_locals>>

TickNext == ProcessorIteration \/ SleepRemembering

TickSpec == TickInit /\ [][TickNext]_vars

\* ------------------------------------------- the functions on their own

\* The probe outcomes of wake-up probe lists of up to MaxProbes probes.
WakeupLists(timestamp) ==
    UNION {[1..n ->
              [k : {"None", "Temporary", "Severe"}, at : {0}]
              \cup [k : {"At"}, at : timestamp..(timestamp + MaxAhead)]] :
           n \in 0..MaxProbes}

\* The Processor configured with the largest thresholds, no pass started.
UnitInit ==
    /\ cfg = [idle_time |-> MaxIdleTime, min_sleep_time |-> MaxMinSleepTime,
              wakeup_delta |-> MaxWakeupDelta, all_activities |-> FALSE]
    /\ idle_since = None
    /\ pc = "unit"
    /\ clock = 0
    /\ tick = NoTick
    /\ calls = <<>>
    /\ prev_blocked = FALSE
    /\ call = NoCall
    /\ general \in [notify_cmd_wakeup : BOOLEAN, notify_cmd_no_wakeup : BOOLEAN]
    /\ shell = <<>>
    /\ prev_failed = FALSE
    /\ woke_up_file = FALSE
    /\ loop_locals = NoLoop
    /\ prev_tick = NoPrev

\* execute_wakeups(wakeups, timestamp, logger) on any probe list.
CallExecuteWakeups ==
    /\ pc = "unit"
    /\ \E timestamp \in 0..MaxTime :
         \E wakes \in WakeupLists(timestamp) :
            call' = [fn |-> "execute_wakeups",
                     args |-> [timestamp |-> timestamp, wakes |-> wakes],
                     result |-> execute_wakeups(wakes, timestamp, <<>>)]
    /\ pc' = "returned"
    /\ UNCHANGED <<cfg, idle_since, clock, tick, calls, prev_blocked, general,
                   shell, prev_failed, woke_up_file, loop_locals,
                   prev_tick>>

\* notify_and_suspend(suspend_cmd, notify_cmd_wakeup, notify_cmd_no_wakeup,
\* wakeup_at) with any wake up and any exit codes of the commands.
CallNotifyAndSuspend ==
    /\ pc = "unit"
    /\ \E wakeup_at \in {None} \cup {Some(t) : t \in 0..(MaxTime + MaxAhead)},
          rcs \in [wakeup : {0}, notify : ExitCodes, suspend : ExitCodes] :
         LET r == notify_and_suspend(general, wakeup_at, rcs)
         IN  /\ call' = [fn |-> "notify_and_suspend",
                          args |-> [wakeup_at |-> wakeup_at, rcs |-> rcs],
                          result |-> [raised |-> r.raised]]
             /\ shell' = r.ran
    /\ pc' = "returned"
    /\ UNCHANGED <<cfg, idle_since, clock, tick, calls, prev_blocked, general,
                   prev_failed, woke_up_file, loop_locals,
                   prev_tick>>

UnitNext == CallExecuteWakeups \/ CallNotifyAndSuspend

UnitSpec == UnitInit /\ [][UnitNext]_vars

\* ------------------------------------------------------------ startup

\* globals()[class_name] for the names used here: a subclass of Activity
\* (Ping), a subclass of Wakeup (WakeupFile), a global of the module that
\* has no create (the module os), or no such global (KeyError).
Globals(class_name) ==
    CASE class_name = "Ping" -> "Activity"
      [] class_name = "WakeupFile" -> "Wakeup"
      [] class_name = "os" -> "module"
      [] OTHER -> "KeyError"

\* config.getboolean(section, 'enabled', fallback=fallback) for the values
\* configparser takes as booleans.
getboolean(value, fallback) ==
    IF value = None THEN fallback
    ELSE value[1] \in {"1", "yes", "true", "on"}

\* The name after the prefix and the class key of a section.
NameAndClass ==
    {<<"Ping", None>>, <<"WakeupFile", None>>, <<"Nope", None>>,
     <<"mine", Some("os")>>, <<"mine", Some("Ping")>>,
     <<"Ping", Some("WakeupFile")>>}

\* A section "<prefix>.<name>" of the configuration file: its class key and
\* enabled key, if any, and whether its other keys are what the create of
\* its class needs.
Sections ==
    {[prefix |-> p, name |-> nc[1], class |-> nc[2], enabled |-> e,
      valid |-> v] :
        p \in {"check", "wakeup", "activity"}, nc \in NameAndClass,
        e \in {None, Some("true"), Some("false")}, v \in BOOLEAN}

\* A parsed configuration file has each section name once (configparser
\* refuses duplicates).
Parsed(config) ==
    \A i, j \in DOMAIN config :
        (config[i].prefix = config[j].prefix
           /\ config[i].name = config[j].name) => i = j

\* SectionBody with enabled defaulting to true.
SectionBodyEnabledByDefault(section, prefix, target_class) ==
    LET class_name == IF section.class # None
                      THEN section.class[1] ELSE section.name
        klass == Globals(class_name)
    IN  IF section.prefix # prefix \/ ~getboolean(section.enabled, TRUE)
        THEN [raised |-> "", check |-> None]
        ELSE IF klass = "KeyError"
        THEN [raised |-> "ConfigurationError", check |-> None]
        ELSE IF klass = "module"
        THEN [raised |-> "AttributeError", check |-> None]
        ELSE IF ~section.valid
        THEN [raised |-> "ConfigurationError", check |-> None]
        ELSE IF klass # target_class
        THEN [raised |-> "ConfigurationError", check |-> None]
        ELSE [raised |-> "",
              check |-> Some([name |-> section.name, class |-> class_name,
                              kind |-> klass])]

\* What set_up_checks does with one section: nothing unless it has the
\* prefix and is enabled; else it looks the class up (the class key, else
\* the name), calls its create and tests the kind of what it made.
SectionBody(section, prefix, target_class) ==
    LET class_name == IF section.class # None
                      THEN section.class[1] ELSE section.name
        klass == Globals(class_name)
    IN  IF section.prefix # prefix \/ ~getboolean(section.enabled, FALSE)
        THEN [raised |-> "", check |-> None]
        ELSE IF klass = "KeyError"
        THEN [raised |-> "ConfigurationError", check |-> None]
        ELSE IF klass = "module"
        THEN [raised |-> "AttributeError", check |-> None]
        ELSE IF ~section.valid
        THEN [raised |-> "ConfigurationError", check |-> None]
        ELSE IF klass # target_class
        THEN [raised |-> "ConfigurationError", check |-> None]
        ELSE [raised |-> "",
              check |-> Some([name |-> section.name, class |-> class_name,
                              kind |-> klass])]

RECURSIVE SetUpChecksFrom(_, _, _, _, _)
SetUpChecksFrom(config, prefix, target_class, i, configured_checks) ==
    IF i > Len(config)
    THEN [raised |-> "", checks |-> configured_checks]
    ELSE LET b == SectionBody(config[i], prefix, target_class)
         IN  IF b.raised # ""
             THEN [raised |-> b.raised, checks |-> <<>>]
             ELSE SetUpChecksFrom(config, prefix, target_class, i + 1,
                                  configured_checks \o b.check)

\* set_up_checks with an empty list never an error.
set_up_checksAllowsNone(config, prefix, target_class, error_none) ==
    SetUpChecksFrom(config, prefix, target_class, 1, <<>>)

\* set_up_checks(config, prefix, target_class, error_none): the list of
\* checks, or the exception that leaves it.
set_up_checks(config, prefix, target_class, error_none) ==
    LET r == SetUpChecksFrom(config, prefix, target_class, 1, <<>>)
    IN  IF r.raised = "" /\ r.checks = <<>> /\ error_none
        THEN [raised |-> "ConfigurationError", checks |-> <<>>]
        ELSE r

\* main with the activity checks read from the sections "activity.".
mainActivityPrefix(config) ==
    LET checks == set_up_checks(config, "activity", "Activity", TRUE)
        wakeups == set_up_checks(config, "wakeup", "Wakeup", FALSE)
    IN  IF checks.raised # ""
        THEN [raised |-> checks.raised, step |-> "checks",
              entered_loop |-> FALSE, exit_code |-> 1,
              activities |-> <<>>, wakeups |-> <<>>]
        ELSE IF wakeups.raised # ""
        THEN [raised |-> wakeups.raised, step |-> "wakeups",
              entered_loop |-> FALSE, exit_code |-> 1,
              activities |-> <<>>, wakeups |-> <<>>]
        ELSE [raised |-> "", step |-> "", entered_loop |-> TRUE,
              exit_code |-> 0,
              activities |-> checks.checks, wakeups |-> wakeups.checks]

\* main() up to its call of loop(): the two calls of set_up_checks, then
\* the Processor and the loop.  No handler catches what set_up_checks
\* raises, so the interpreter ends with a traceback and status 1.
main(config) ==
    LET checks == set_up_checks(config, "check", "Activity", TRUE)
        wakeups == set_up_checks(config, "wakeup", "Wakeup", FALSE)
    IN  IF checks.raised # ""
        THEN [raised |-> checks.raised, step |-> "checks",
              entered_loop |-> FALSE, exit_code |-> 1,
              activities |-> <<>>, wakeups |-> <<>>]
        ELSE IF wakeups.raised # ""
        THEN [raised |-> wakeups.raised, step |-> "wakeups",
              entered_loop |-> FALSE, exit_code |-> 1,
              activities |-> <<>>, wakeups |-> <<>>]
        ELSE [raised |-> "", step |-> "", entered_loop |-> TRUE,
              exit_code |-> 0,
              activities |-> checks.checks, wakeups |-> wakeups.checks]

\* The daemon before it starts.
StartupInit ==
    /\ cfg = [idle_time |-> MaxIdleTime, min_sleep_time |-> MaxMinSleepTime,
              wakeup_delta |-> MaxWakeupDelta, all_activities |-> FALSE]
    /\ idle_since = None
    /\ pc = "unit"
    /\ clock = 0
    /\ tick = NoTick
    /\ calls = <<>>
    /\ prev_blocked = FALSE
    /\ call = NoCall
    /\ general = [notify_cmd_wakeup |-> FALSE, notify_cmd_no_wakeup |-> FALSE]
    /\ shell = <<>>
    /\ prev_failed = FALSE
    /\ woke_up_file = FALSE
    /\ loop_locals = NoLoop
    /\ prev_tick = NoPrev

\* set_up_checks as main calls it, on any configuration file.
CallSetUpChecks ==
    /\ pc = "unit"
    /\ \E n \in 0..MaxSections :
       \E config \in [1..n -> Sections],
          a \in {[prefix |-> "check", target_class |-> "Activity",
                  error_none |-> TRUE],
                 [prefix |-> "wakeup", target_class |-> "Wakeup",
                  error_none |-> FALSE]} :
         /\ Parsed(config)
         /\ call' = [fn |-> "set_up_checks",
                     args |-> [config |-> config, prefix |-> a.prefix,
                               target_class |-> a.target_class,
                               error_none |-> a.error_none],
                     result |-> set_up_checks(config, a.prefix,
                                              a.target_class, a.error_none)]
    /\ pc' = "returned"
    /\ UNCHANGED <<cfg, idle_since, clock, tick, calls, prev_blocked, general,
                   shell, prev_failed, woke_up_file, loop_locals, prev_tick>>

\* main() on any configuration file, up to the loop or the exit.
CallMain ==
    /\ pc = "unit"
    /\ \E n \in 0..MaxSections :
       \E config \in [1..n -> Sections] :
         /\ Parsed(config)
         /\ call' = [fn |-> "main", args |-> [config |-> config],
                     result |-> main(config)]
    /\ pc' = "returned"
    /\ UNCHANGED <<cfg, idle_since, clock, tick, calls, prev_blocked, general,
                   shell, prev_failed, woke_up_file, loop_locals, prev_tick>>

StartupNext == CallSetUpChecks \/ CallMain

StartupSpec == StartupInit /\ [][StartupNext]_vars

\* ------------------------------------------------------------- loop()

\* The probes of the Processor handed to loop(): one activity probe and one
\* wake up probe.
LoopActivityNames == <<"a1">>
LoopWakeupNames == <<"w1">>

\* The while condition with <= for <.
LoopConditionOrEqual(run_for, now, start_time) ==
    run_for = None \/ now <= start_time + run_for[1]

\* (run_for is None) or (now < start_time + timedelta(seconds=run_for))
LoopCondition(run_for, now, start_time) ==
    run_for = None \/ now < start_time + run_for[1]

\* loop(processor, interval, run_for, woke_up_file) entered at time 0,
\* with or without run_for, with the file there or not, and a Processor
\* fresh from its constructor.
LoopInit ==
    /\ cfg = [idle_time |-> 0, min_sleep_time |-> MaxMinSleepTime,
              wakeup_delta |-> 0, all_activities |-> FALSE]
    /\ idle_since = None
    /\ pc = "while"
    /\ clock = 0
    /\ tick = NoTick
    /\ calls = <<>>
    /\ prev_blocked = FALSE
    /\ call = NoCall
    /\ general = [notify_cmd_wakeup |-> FALSE, notify_cmd_no_wakeup |-> FALSE]
    /\ shell = <<>>
    /\ prev_failed = FALSE
    /\ woke_up_file \in BOOLEAN
    /\ \E run_for \in {None} \cup {Some(n) : n \in 0..MaxRunFor} :
         loop_locals = [NoLoop EXCEPT !.run_for = run_for, !.start_time = clock]
    /\ prev_tick = NoPrev

\* The test of the while statement: reads the time when run_for is given.
LoopWhile ==
    /\ pc = "while"
    /\ \E now \in clock..MaxTime :
         /\ clock' = IF loop_locals.run_for = None THEN clock ELSE now
         /\ pc' = IF LoopCondition(loop_locals.run_for, now,
                                   loop_locals.start_time)
                  THEN "isfile" ELSE "done"
    /\ UNCHANGED <<cfg, idle_since, tick, calls, prev_blocked, call, general,
                   shell, prev_failed, woke_up_file, loop_locals,
                   prev_tick>>

\* just_woke_up = os.path.isfile(woke_up_file)
LoopIsFile ==
    /\ pc = "isfile"
    /\ loop_locals' = [loop_locals EXCEPT !.just_woke_up = woke_up_file,
                                          !.removed = FALSE,
                                          !.remove_failed = FALSE,
                                          !.written = FALSE]
    /\ pc' = IF woke_up_file THEN "remove" ELSE "iteration"
    /\ UNCHANGED <<cfg, idle_since, clock, tick, calls, prev_blocked, call,
                   general, shell, prev_failed, woke_up_file,
                   prev_tick>>

\* os.remove(woke_up_file): removes the file, or raises OSError (the file
\* is gone already, or may not be removed), which nothing catches.
LoopRemove ==
    /\ pc = "remove"
    /\ \/ /\ woke_up_file
          /\ woke_up_file' = FALSE
          /\ loop_locals' = [loop_locals EXCEPT !.removed = TRUE]
          /\ pc' = "iteration"
       \/ /\ loop_locals' = [loop_locals EXCEPT !.remove_failed = TRUE]
          /\ pc' = "crashed"
          /\ UNCHANGED woke_up_file
    /\ UNCHANGED <<cfg, idle_since, clock, tick, calls, prev_blocked, call,
                   general, shell, prev_failed,
                   prev_tick>>

\* processor.iteration(datetime.now(), just_woke_up), the probes doing
\* whatever they can do.
LoopIterate ==
    /\ pc = "iteration"
    /\ \E timestamp \in clock..MaxTime :
         /\ clock' = timestamp
         /\ \E acts \in [DOMAIN LoopActivityNames -> ActivityOutcomes],
               wakes \in [DOMAIN LoopWakeupNames ->
                            [k : {"None", "Temporary", "Severe"}, at : {0}]
                            \cup [k : {"At"},
                                  at : timestamp..(timestamp + MaxAhead)]] :
              /\ tick' = [valid |-> TRUE, timestamp |-> timestamp,
                          just_woke_up |-> loop_locals.just_woke_up,
                          acts |-> acts, wakes |-> wakes,
                          pre_idle |-> idle_since]
              /\ LET it == iteration(cfg, idle_since, timestamp,
                                     loop_locals.just_woke_up, acts, wakes)
                     since == IF idle_since = None
                              THEN Some(timestamp) ELSE idle_since
                 IN  \E rcs \in ExitCodesOf(it.log, general) :
                       LET r == RunCallbacksFrom(it, since, general, rcs, 1,
                                                 <<>>)
                       IN  /\ idle_since' = r.idle_since
                           /\ calls' = r.log
                           /\ shell' = r.shell
                           /\ pc' = IF r.raised
                                    THEN "crashed" ELSE "time_sleep"
    /\ UNCHANGED <<cfg, prev_blocked, call, general, prev_failed,
                   woke_up_file, loop_locals,
                   prev_tick>>

\* time.sleep(interval): time passes (up to the horizon MaxTime, where it
\* stands still).
LoopSleep ==
    /\ pc = "time_sleep"
    /\ pc' = "while"
    /\ clock' \in IF clock < MaxTime THEN (clock + 1)..MaxTime ELSE {clock}
    /\ prev_blocked' = BlockedByFloor
    /\ prev_failed' = CommandFailed("suspend_cmd")
    /\ tick' = NoTick
    /\ calls' = <<>>
    /\ shell' = <<>>
    /\ UNCHANGED <<cfg, idle_since, call, general, woke_up_file, loop_locals,
                   prev_tick>>

\* The resume hook of the system creates the file, or writes it again when
\* it is still there.
ResumeHook ==
    /\ pc \notin {"done", "crashed"}
    /\ woke_up_file' = TRUE
    /\ loop_locals' = [loop_locals EXCEPT !.written = TRUE]
    /\ UNCHANGED <<cfg, idle_since, pc, clock, tick, calls, prev_blocked, call,
                   general, shell, prev_failed,
                   prev_tick>>

\* Another party removes the file.
ForeignRemove ==
    /\ pc \notin {"done", "crashed"}
    /\ woke_up_file
    /\ woke_up_file' = FALSE
    /\ UNCHANGED <<cfg, idle_since, pc, clock, tick, calls, prev_blocked, call,
                   general, shell, prev_failed, loop_locals,
                   prev_tick>>

\* The steps of loop() itself.
LoopStep == LoopWhile \/ LoopIsFile \/ LoopRemove \/ LoopIterate \/ LoopSleep

LoopNext == LoopStep \/ ResumeHook \/ ForeignRemove

LoopSpec == LoopInit /\ [][LoopNext]_vars

\* loop() with the resume hook as the only other party.
WriterNext == LoopStep \/ ResumeHook

WriterSpec == LoopInit /\ [][WriterNext]_vars

\* loop() is a sequential program that keeps running: whenever it can take
\* a step it takes one.
FairLoopSpec == LoopSpec /\ WF_vars(LoopStep)

\* ------------------------------------------------------------ properties

\* The aggregated wake up of the tick is absent, or far enough ahead once
\* wakeup_delta is taken off.
WakeupAllowsSleep ==
    \/ FutureWakeups = {}
    \/ (SetMin(FutureWakeups) - cfg.wakeup_delta) - tick.timestamp
         >= cfg.min_sleep_time

\* C1: the suspend callback is invoked on a tick only if no activity probe
\* matched, just_woke_up is false, the system has been idle for strictly
\* more than idle_time, and the aggregated wake up is absent or, less
\* wakeup_delta, at least min_sleep_time after the tick.
C1_SuspendOnlyWhenIdle ==
    Called("sleep_fn") # {} =>
        /\ Reasons = {}
        /\ ~tick.just_woke_up
        /\ IdleSeconds > cfg.idle_time
        /\ WakeupAllowsSleep

C1_Witness ==
    /\ Called("sleep_fn") # {}
    /\ FutureWakeups # {}
    /\ IdleSeconds = cfg.idle_time + 1

\* C2: on every tick the wake-schedule callback is invoked if and only if
\* the suspend callback is invoked on that tick and the aggregated wake up
\* is present, and it is invoked at most once.
C2_WakeupScheduledIffSuspendWithWakeup ==
    /\ Called("wakeup_fn") # {}
         <=> (Called("sleep_fn") # {} /\ FutureWakeups # {})
    /\ Cardinality(Called("wakeup_fn")) <= 1

C2_Witness ==
    /\ Cardinality(Called("wakeup_fn")) = 1
    /\ Cardinality(Called("sleep_fn")) = 1

\* C3: on a tick that invokes both callbacks, the wake-schedule callback is
\* invoked (and, the calls being synchronous, has returned) before the
\* suspend callback is invoked.
C3_WakeupBeforeSuspend ==
    \A i \in Called("wakeup_fn"), j \in Called("sleep_fn") : i < j

C3_Witness ==
    \E i \in Called("wakeup_fn"), j \in Called("sleep_fn") :
        i < j /\ calls[i].arg = calls[j].arg

\* A callback was invoked on the tick.
CallbackInvoked == Called("wakeup_fn") # {} \/ Called("sleep_fn") # {}

\* C4: after any tick called with just_woke_up = true, idle_since is None
\* and neither callback was invoked, whatever the probes did.
C4_ResumeResetsIdleSince ==
    (tick.valid /\ tick.just_woke_up) =>
        (idle_since = None /\ ~CallbackInvoked)

\* C5: after any tick on which an activity probe returned a reason,
\* idle_since is None and neither callback was invoked.
C5_ActivityResetsIdleSince ==
    (tick.valid /\ \E i \in Invoked("check") : tick.acts[i] = "Reason") =>
        (idle_since = None /\ ~CallbackInvoked)

\* C6: on a tick that is idle past the threshold but whose wake up, less
\* wakeup_delta, is closer than min_sleep_time, idle_since keeps the value
\* it had before the tick and neither callback is invoked.
C6_FloorKeepsIdleSince ==
    (/\ tick.valid
     /\ ~tick.just_woke_up
     /\ Reasons = {}
     /\ IdleSeconds > cfg.idle_time
     /\ ~WakeupAllowsSleep) =>
        (idle_since = tick.pre_idle /\ ~CallbackInvoked)

C6_Witness ==
    /\ BlockedByFloor
    /\ tick.pre_idle # None
    /\ idle_since = tick.pre_idle
    /\ calls # <<>>

\* C7: when the tick before was stopped by the minimum sleep time, a tick
\* whose aggregations find no activity and no wake up in the future, with
\* just_woke_up false, invokes the suspend callback at once.
C7_SuspendRightAfterFloor ==
    (/\ prev_blocked
     /\ tick.valid /\ running
     /\ ~tick.just_woke_up
     /\ Reasons = {}
     /\ FutureWakeups = {}) =>
        Called("sleep_fn") # {}

C7_Witness ==
    /\ prev_blocked
    /\ tick.valid
    /\ \E j \in DOMAIN tick.wakes :
         tick.wakes[j].k = "At" /\ tick.wakes[j].at = tick.timestamp
    /\ Called("sleep_fn") # {}
    /\ Called("wakeup_fn") = {}

\* The outcomes with each of `bad` replaced by the neutral None.
NeutralActs(acts, bad) ==
    [i \in DOMAIN acts |-> IF acts[i] \in bad THEN "None" ELSE acts[i]]

NeutralWakes(wakes, bad) ==
    [j \in DOMAIN wakes |->
        IF wakes[j].k \in bad THEN [k |-> "None", at |-> 0] ELSE wakes[j]]

\* The tick ended as Processor.iteration ends on the same inputs with the
\* outcomes in `bad` replaced by None, but for the calls of the probes.
EndsAsIfNeutral(bad) ==
    LET r == iteration(cfg, tick.pre_idle, tick.timestamp, tick.just_woke_up,
                       NeutralActs(tick.acts, bad),
                       NeutralWakes(tick.wakes, bad))
    IN  /\ running = ~r.raised
        /\ idle_since = r.idle_since
        /\ calls = r.log

\* C8: a probe raising SevereCheckError does not abort the tick or end the
\* loop: the other probes are evaluated and the tick decides as if the
\* probe had returned None.
C8_SevereIsNeutral == tick.valid => (running /\ EndsAsIfNeutral({"Severe"}))

\* C9: a probe raising TemporaryCheckError does not stop either aggregator:
\* the probe after it is called, and the tick ends as if the probe had
\* returned None; with two activity probes, the first raising
\* TemporaryCheckError and the second matching, and no other error,
\* idle_since is None after the tick.
C9_TemporaryIsNeutral ==
    tick.valid =>
        /\ \A i \in Invoked("check") :
             (tick.acts[i] = "Temporary" /\ i < Len(tick.acts))
                => i + 1 \in Invoked("check")
        /\ \A j \in Invoked("wakeup") :
             (tick.wakes[j].k = "Temporary" /\ j < Len(tick.wakes))
                => j + 1 \in Invoked("wakeup")
        /\ EndsAsIfNeutral({"Temporary"})
        /\ (/\ tick.acts = <<"Temporary", "Reason">>
            /\ \A j \in DOMAIN tick.wakes : tick.wakes[j].k # "Severe")
              => (idle_since = None /\ ~CallbackInvoked)

C9_Witness ==
    /\ tick.valid
    /\ tick.acts = <<"Temporary", "Reason">>
    /\ tick.wakes[1].k = "Temporary"
    /\ Invoked("check") = {1, 2}
    /\ Invoked("wakeup") = {1, 2}
    /\ tick.pre_idle # None
    /\ idle_since = None

\* The number of activity probes execute_checks is to call on the tick.
ChecksExpected ==
    IF cfg.all_activities \/ Reasons = {}
    THEN Len(tick.acts) ELSE SetMin(Reasons)

\* C10: execute_checks calls the probes in list order; without
\* all_activities it calls 1 + (index of the first matching probe) of them
\* (counting from 0), all of them when none matches; with all_activities it
\* calls every probe exactly once.
C10_ChecksInvoked ==
    tick.valid =>
        /\ Cardinality(Called("check")) = ChecksExpected
        /\ \A n \in 1..ChecksExpected :
             calls[n].fn = "check" /\ calls[n].arg = Some(n)

\* The instants after `timestamp` among the answers of the probes of the
\* execute_wakeups call.
FutureInstants ==
    {call.args.wakes[j].at : j \in {x \in DOMAIN call.args.wakes :
        call.args.wakes[x].k = "At"
        /\ call.args.wakes[x].at > call.args.timestamp}}

\* C11: execute_wakeups, when it returns, returns None if no probe answered
\* an instant strictly after `timestamp`, and else the least of the instants
\* strictly after `timestamp`; so a result is always after `timestamp`.
C11_WakeupIsEarliestFuture ==
    (call.fn = "execute_wakeups" /\ ~call.result.raised) =>
        /\ FutureInstants = {} => call.result.wakeup_at = None
        /\ FutureInstants # {} =>
             /\ call.result.wakeup_at = Some(SetMin(FutureInstants))
             /\ call.result.wakeup_at[1] > call.args.timestamp

C11_Witness ==
    /\ call.fn = "execute_wakeups"
    /\ ~call.result.raised
    /\ Len(call.args.wakes) = 3
    /\ call.args.wakes[1].k = "At"
    /\ call.args.wakes[1].at = call.args.timestamp
    /\ call.args.wakes[2].k = "At"
    /\ call.args.wakes[3].k = "At"
    /\ call.args.wakes[3].at < call.args.wakes[2].at
    /\ call.result.wakeup_at = Some(call.args.wakes[3].at)

\* The tick follows a tick whose suspend command failed and finds no
\* activity, no resume and no wake up closer than the minimum sleep time.
AfterFailedSuspend ==
    /\ prev_failed
    /\ tick.valid /\ running
    /\ ~tick.just_woke_up
    /\ Reasons = {}
    /\ WakeupAllowsSleep

\* C12 as stated: when the suspend command failed (non-zero exit,
\* swallowed) on a tick, the next tick, with still no activity, no resume
\* and no wake up below the floor, invokes the suspend callback again.
C12_RetryOnNextTick == AfterFailedSuspend => Called("sleep_fn") # {}

\* C12 amended: a failed suspend command is swallowed and leaves idle_since
\* reset (None); the next tick without activity and resume starts a new
\* idle period at its own timestamp and invokes no callback, and the
\* suspend callback is invoked again on the tick at which that idle period
\* exceeds idle_time (with no activity, no resume, no wake up below the
\* floor).
C12_RetryAfterIdleTimeAgain ==
    /\ CommandFailed("suspend_cmd") => (running /\ idle_since = None)
    /\ (prev_failed /\ tick.valid /\ running /\ ~tick.just_woke_up
           /\ Reasons = {}) =>
          /\ tick.pre_idle = None
          /\ idle_since = Some(tick.timestamp)
          /\ ~CallbackInvoked
    /\ (/\ tick.valid /\ running
        /\ ~tick.just_woke_up
        /\ Reasons = {}
        /\ IdleSeconds > cfg.idle_time
        /\ WakeupAllowsSleep) => Called("sleep_fn") # {}

C12_Witness ==
    /\ AfterFailedSuspend
    /\ idle_since = Some(tick.timestamp)
    /\ calls # <<>>
    /\ shell = <<>>

\* C13: when the wake up scheduling command exits non-zero on a tick that
\* decided to suspend, the failure is swallowed: the loop goes on and the
\* suspend callback is invoked, and the suspend command run, on that tick.
C13_WakeupFailureStillSuspends ==
    CommandFailed("wakeup_cmd") =>
        /\ running
        /\ Cardinality(Called("sleep_fn")) = 1
        /\ \A i \in Called("wakeup_fn"), j \in Called("sleep_fn") :
             calls[j].arg = calls[i].arg
        /\ shell[Len(shell)].cmd = "suspend_cmd"

C13_Witness ==
    /\ CommandFailed("wakeup_cmd")
    /\ Called("sleep_fn") # {}
    /\ Len(shell) = 2
    /\ shell[1].cmd = "wakeup_cmd"
    /\ shell[2].cmd = "suspend_cmd"

\* The notifier notify_and_suspend is to run for the wake up `at`.
NotifierFor(at) ==
    IF at # None /\ general.notify_cmd_wakeup
    THEN <<"notify_cmd_wakeup">>
    ELSE IF at = None /\ general.notify_cmd_no_wakeup
    THEN <<"notify_cmd_no_wakeup">>
    ELSE <<>>

\* C14: every call of notify_and_suspend(at) runs the suspend command
\* exactly once, last, after the notifier: the wake up template when `at`
\* is present and the template configured, the no-wake-up command when
\* `at` is absent and that command configured, no notifier otherwise;
\* whatever the exit code of the notifier.
C14_NotifyThenSuspendOnce ==
    call.fn = "notify_and_suspend" =>
        /\ ~call.result.raised
        /\ [k \in DOMAIN shell |-> shell[k].cmd]
             = NotifierFor(call.args.wakeup_at) \o <<"suspend_cmd">>
        /\ \A k \in DOMAIN shell :
             shell[k].cmd = "notify_cmd_wakeup"
                => shell[k].at = call.args.wakeup_at

C14_Witness ==
    /\ call.fn = "notify_and_suspend"
    /\ Len(shell) = 2
    /\ shell[1].cmd = "notify_cmd_wakeup"
    /\ shell[1].rc # 0
    /\ shell[2].cmd = "suspend_cmd"

\* C18: in every state reachable by ticks, idle_since, when present, is
\* not later than the timestamp of the most recent tick.
C18_IdleSinceNotInFuture == idle_since # None => idle_since[1] <= clock

C18_Witness ==
    /\ tick.valid
    /\ tick.pre_idle = None
    /\ idle_since = Some(clock)
    /\ clock > 0

\* C19: within a tick every activity probe call comes before every wake up
\* probe call, and every probe call comes before the callbacks that run
\* the external commands (wake up scheduling, notification, suspend);
\* the commands are run by those callbacks only, after all probes.
C19_ProbesBeforeCommands ==
    tick.valid =>
        /\ \A i \in Called("check"), j \in Called("wakeup") : i < j
        /\ \A i \in Called("check") \cup Called("wakeup"),
              j \in Called("wakeup_fn") \cup Called("sleep_fn") : i < j
        /\ CallbackInvoked =>
             /\ Invoked("check") = DOMAIN tick.acts
             /\ Invoked("wakeup") = DOMAIN tick.wakes
        /\ \A k \in DOMAIN shell :
             IF shell[k].cmd = "wakeup_cmd"
             THEN Called("wakeup_fn") # {}
             ELSE Called("sleep_fn") # {}

C19_Witness ==
    /\ tick.valid
    /\ Called("check") = {1, 2}
    /\ Called("wakeup") = {3, 4}
    /\ Called("wakeup_fn") = {5}
    /\ Called("sleep_fn") = {7}
    /\ Len(shell) = 2

\* The calls of the callbacks in a log of calls.
Callbacks(log) ==
    SelectSeq(log, LAMBDA c : c.fn \in {"wakeup_fn", "sleep_fn"})

\* C20: for the same probes with the same outcomes (values or errors) and
\* the same idle_since before, a tick with all_activities true decides as
\* a tick with all_activities false: same matched result, same idle_since
\* after, same suspend and wake up scheduling calls.
C20_RunAllSameDecision ==
    tick.valid =>
        LET other == iteration([cfg EXCEPT !.all_activities = ~@],
                               tick.pre_idle, tick.timestamp,
                               tick.just_woke_up, tick.acts, tick.wakes)
            mine == execute_checks(tick.acts, cfg.all_activities, <<>>)
            theirs == execute_checks(tick.acts, ~cfg.all_activities, <<>>)
        IN  /\ mine.raised = theirs.raised
            /\ mine.matched = theirs.matched
            /\ running = ~other.raised
            /\ idle_since = other.idle_since
            /\ Callbacks(calls) = Callbacks(other.log)

\* A pass of the loop has ended: in time.sleep, or by an exception.
PassEnded ==
    \/ pc = "time_sleep"
    \/ pc = "crashed" /\ (tick.valid \/ loop_locals.remove_failed)

\* C15: in every pass of the loop, when the file exists at the test it is
\* removed before Processor.iteration is invoked, and the iteration is
\* invoked with just_woke_up true; when it does not exist the iteration is
\* invoked with just_woke_up false; and when nobody wrote the file during
\* the pass, the file does not exist after it.
C15_SentinelConsumed ==
    PassEnded =>
        /\ tick.valid
        /\ tick.just_woke_up = loop_locals.just_woke_up
        /\ loop_locals.just_woke_up => loop_locals.removed
        /\ ~loop_locals.written => ~woke_up_file

\* C16: when removing the file fails in a pass, the failure is ignored:
\* the loop does not end and Processor.iteration is invoked in that pass.
C16_RemoveFailureIgnored ==
    loop_locals.remove_failed =>
        /\ running
        /\ pc \in {"time_sleep", "while"} => tick.valid

\* C17: with run_for set, a pass starts only while now < start_time +
\* run_for and the loop exits at the first test with now >= start_time +
\* run_for, so it ends eventually (the clock advancing); without run_for
\* the loop never exits by itself.
C17_RunForBoundsLoop ==
    /\ [](pc \in {"isfile", "remove", "iteration"} =>
            \/ loop_locals.run_for = None
            \/ clock < loop_locals.start_time + loop_locals.run_for[1])
    /\ [](pc = "done" =>
            /\ loop_locals.run_for # None
            /\ clock >= loop_locals.start_time + loop_locals.run_for[1])
    /\ [][(pc = "while" /\ loop_locals.run_for # None
            /\ clock' >= loop_locals.start_time + loop_locals.run_for[1])
              => pc' \in {"while", "done"}]_vars
    /\ [](loop_locals.run_for # None => <>(pc \in {"done", "crashed"}))
    /\ [](loop_locals.run_for = None => pc # "done")

C17_Witness ==
    /\ pc = "done"
    /\ loop_locals.run_for = Some(MaxRunFor)
    /\ clock = MaxRunFor
    /\ idle_since # None

\* The tick returned and found no activity, no resume and no wake up in
\* the future.
QuietTick ==
    /\ tick.valid /\ running
    /\ ~tick.just_woke_up
    /\ Reasons = {}
    /\ FutureWakeups = {}

\* C21: with no activity, no wake up and no resume, a tick from idle_since
\* = None at T0 sets idle_since = T0 without suspending; a later tick with
\* now - idle_since <= idle_time does not suspend and keeps idle_since;
\* the first tick with now - idle_since > idle_time invokes the suspend
\* callback (once, with no wake up) and not the wake up scheduling one.
C21_SuspendAfterIdleTime ==
    QuietTick =>
        /\ tick.pre_idle = None =>
             (idle_since = Some(tick.timestamp) /\ ~CallbackInvoked)
        /\ (tick.pre_idle # None
              /\ tick.timestamp - tick.pre_idle[1] <= cfg.idle_time) =>
             (idle_since = tick.pre_idle /\ ~CallbackInvoked)
        /\ (tick.pre_idle # None
              /\ tick.timestamp - tick.pre_idle[1] > cfg.idle_time) =>
             /\ Cardinality(Called("sleep_fn")) = 1
             /\ \A j \in Called("sleep_fn") : calls[j].arg = None
             /\ Called("wakeup_fn") = {}

C21_Witness ==
    /\ QuietTick
    /\ cfg.idle_time = MaxIdleTime
    /\ tick.pre_idle = Some(0)
    /\ tick.timestamp = cfg.idle_time + 1
    /\ \A j \in DOMAIN tick.wakes : tick.wakes[j].k = "None"
    /\ Called("sleep_fn") # {}
    /\ Called("wakeup_fn") = {}

\* C22: whenever the wake up scheduling callback is invoked on a tick, its
\* argument is the earliest future wake up of the probes minus
\* wakeup_delta, it is at least the tick's timestamp plus min_sleep_time,
\* and the suspend callback of the tick gets the same instant.
C22_WakeupArgument ==
    \A i \in Called("wakeup_fn") :
        /\ FutureWakeups # {}
        /\ calls[i].arg = Some(SetMin(FutureWakeups) - cfg.wakeup_delta)
        /\ calls[i].arg[1] >= tick.timestamp + cfg.min_sleep_time
        /\ Called("sleep_fn") # {}
        /\ \A j \in Called("sleep_fn") : calls[j].arg = calls[i].arg

C22_Witness ==
    /\ Called("wakeup_fn") # {}
    /\ cfg.wakeup_delta = MaxWakeupDelta
    /\ cfg.min_sleep_time = MaxMinSleepTime
    /\ \E i \in Called("wakeup_fn") :
         /\ calls[i].arg = Some(tick.timestamp + cfg.min_sleep_time)
         /\ \E j \in DOMAIN tick.wakes :
              tick.wakes[j].k = "At"
              /\ tick.wakes[j].at = calls[i].arg[1] + cfg.wakeup_delta

\* C25: on every tick that suspends, idle_since is reset to None after
\* the wake up scheduling callback (if any) and before the suspend
\* callback is invoked, so it is None while the suspend callback runs and
\* after the tick, also when the suspend command fails.
C25_ResetBeforeSuspend ==
    \A j \in Called("sleep_fn") :
        /\ idle_since = None
        /\ \E k \in Called("_reset_state") :
             /\ k = j - 1
             /\ \A i \in Called("wakeup_fn") : i < k

C25_Witness ==
    /\ Called("sleep_fn") # {}
    /\ Called("wakeup_fn") # {}
    /\ CommandFailed("suspend_cmd")
    /\ tick.pre_idle # None
    /\ idle_since = None

\* C23: two ticks in a row with just_woke_up = true leave idle_since as
\* one such tick does, that is None, and neither invokes a callback.
C23_ResumeTwiceAsOnce ==
    (tick.valid /\ tick.just_woke_up) =>
        /\ ~CallbackInvoked
        /\ (prev_tick.valid /\ prev_tick.just_woke_up) =>
             /\ tick.pre_idle = None
             /\ idle_since = tick.pre_idle

C23_Witness ==
    /\ tick.valid /\ tick.just_woke_up /\ running
    /\ prev_tick.valid /\ prev_tick.just_woke_up
    /\ prev_tick.pre_idle # None
    /\ idle_since = None

\* C24: in a sequence of ticks idle at t1, active at t2, idle at t3, with
\* no suspend in between, idle_since after the tick at t3 is t3 and not
\* t1: the idle time before the activity does not count.
C24_ActivityRestartsIdlePeriod ==
    (/\ prev_tick.valid /\ prev_tick.active
     /\ tick.valid /\ running
     /\ ~tick.just_woke_up
     /\ Reasons = {}) =>
        /\ tick.pre_idle = None
        /\ idle_since = Some(tick.timestamp)
        /\ ~CallbackInvoked

C24_Witness ==
    /\ prev_tick.valid /\ prev_tick.active /\ ~prev_tick.just_woke_up
    /\ prev_tick.pre_idle = Some(0)
    /\ tick.valid /\ running /\ ~tick.just_woke_up /\ Reasons = {}
    /\ tick.timestamp - 0 > cfg.idle_time
    /\ idle_since = Some(tick.timestamp)

\* The sections "<prefix>.<name>" with enabled = true of the configuration
\* file of the call, by place in the file.
EnabledSections(prefix) ==
    {i \in DOMAIN call.args.config :
        /\ call.args.config[i].prefix = prefix
        /\ call.args.config[i].enabled = Some("true")}

\* The class name of a section: its class key, else its name.
ResolvedClass(section) ==
    IF section.class # None THEN section.class[1] ELSE section.name

\* The kind of probe a class name stands for, "none" if it is not the
\* name of a probe implementation.
ProbeKind(class_name) ==
    CASE class_name = "Ping" -> "Activity"
      [] class_name = "WakeupFile" -> "Wakeup"
      [] OTHER -> "none"

\* C26: set_up_checks fails with a ConfigurationError whenever an enabled
\* section of its prefix resolves (class key, else section suffix) to a
\* name that is not a probe implementation, or to a probe of the other
\* kind; sections that are not enabled never cause an error.
C26_BadClassIsConfigurationError ==
    call.fn = "set_up_checks" =>
        /\ (\E i \in EnabledSections(call.args.prefix) :
              ProbeKind(ResolvedClass(call.args.config[i]))
                  # call.args.target_class)
             => call.result.raised = "ConfigurationError"
        /\ (EnabledSections(call.args.prefix) = {} /\ ~call.args.error_none)
             => call.result.raised = ""

RECURSIVE InOrder(_)
InOrder(places) ==
    IF places = {} THEN <<>>
    ELSE LET first == CHOOSE i \in places : \A j \in places : i <= j
         IN  <<first>> \o InOrder(places \ {first})

\* C28: the list set_up_checks returns has exactly one probe for each
\* enabled section of the prefix, named by the section suffix, in the
\* order of the sections in the file; sections without enabled = true
\* (also those with no enabled key) contribute none.
C28_OneProbePerEnabledSection ==
    (call.fn = "set_up_checks" /\ call.result.raised = "") =>
        LET places == InOrder(EnabledSections(call.args.prefix))
        IN  /\ Len(call.result.checks) = Len(places)
            /\ \A n \in DOMAIN places :
                 /\ call.result.checks[n].name
                      = call.args.config[places[n]].name
                 /\ call.result.checks[n].kind = call.args.target_class

C28_Witness ==
    /\ call.fn = "set_up_checks"
    /\ call.result.raised = ""
    /\ Len(call.result.checks) = 2
    /\ call.result.checks[1].name # call.result.checks[2].name
    /\ call.result.checks[1].name = call.args.config[1].name
    /\ call.result.checks[1].class # call.result.checks[1].name

\* C29: a ConfigurationError raised at startup (by a create, or by
\* set_up_checks for an unknown class, a wrong kind or no activity check
\* enabled) ends the daemon before the loop starts, with exit code 2.
C29_ConfigurationErrorExitsWith2 ==
    (call.fn = "main" /\ call.result.raised = "ConfigurationError") =>
        (~call.result.entered_loop /\ call.result.exit_code = 2)

\* Each enabled section "<prefix>.<name>" has a probe of that name and of
\* the kind `kind` in the list `checks`.
EachYields(prefix, kind, checks) ==
    \A i \in EnabledSections(prefix) :
        \E n \in DOMAIN checks :
            /\ checks[n].name = call.args.config[i].name
            /\ checks[n].kind = kind

\* C30 as stated: at startup every enabled section activity.<name> yields
\* an activity probe in the Processor's activity list and every enabled
\* section wakeup.<name> a wake up probe in its wake up list.
C30_ActivitySectionsYieldProbes ==
    (call.fn = "main" /\ call.result.entered_loop) =>
        /\ EachYields("activity", "Activity", call.result.activities)
        /\ EachYields("wakeup", "Wakeup", call.result.wakeups)

\* C30 amended: at a startup that reaches the loop, every enabled section
\* check.<name> yields an activity probe in the Processor's activity list
\* and every enabled section wakeup.<name> a wake up probe in its wake up
\* list; sections activity.<name> are not read and yield no probe.
C30_CheckSectionsYieldProbes ==
    (call.fn = "main" /\ call.result.entered_loop) =>
        /\ EachYields("check", "Activity", call.result.activities)
        /\ EachYields("wakeup", "Wakeup", call.result.wakeups)
        /\ Len(call.result.activities) = Cardinality(EnabledSections("check"))
        /\ Len(call.result.wakeups) = Cardinality(EnabledSections("wakeup"))

C30_Witness ==
    /\ call.fn = "main"
    /\ call.result.entered_loop
    /\ Len(call.result.activities) = 1
    /\ EnabledSections("activity") # {}
    /\ \A i \in EnabledSections("activity") :
         ProbeKind(ResolvedClass(call.args.config[i])) = "Activity"

-----------------------------------------------------------------------------
\* The probe bodies: ActiveConnection, Smb, Users and Processes.

\* How many connections, sessions or processes the system reports.
MaxEntries == 2

\* How many characters smbstatus prints.
MaxOutput == 8

\* psutil.net_connections(): laddr and raddr are (address, port) pairs.
Connections ==
    [family : {"AF_INET", "AF_INET6"},
     laddr : {"123.456.123.456", "33.33.33.33"} \X {22, 32},
     raddr : {<<"42.42.42.42", 42>>, <<"123.456.123.456", 22>>},
     status : {"ESTABLISHED", "NARF"}]

\* The condition of the comprehension in ActiveConnection.check.
IsConnectedAnyStatus(c, own_addresses, ports) ==
    /\ <<c.family, c.laddr[1]>> \in own_addresses
    /\ c.laddr[2] \in ports

IsConnected(c, own_addresses, ports) ==
    /\ <<c.family, c.laddr[1]>> \in own_addresses
    /\ c.status = "ESTABLISHED"
    /\ c.laddr[2] \in ports

RECURSIVE ConnectedFrom(_, _, _, _)
ConnectedFrom(net_connections, own_addresses, ports, i) ==
    IF i > Len(net_connections) THEN <<>>
    ELSE (IF IsConnected(net_connections[i], own_addresses, ports)
          THEN <<net_connections[i].laddr[2]>> ELSE <<>>)
         \o ConnectedFrom(net_connections, own_addresses, ports, i + 1)

\* ActiveConnection.check(): the reason carries the list of connected ports.
ActiveConnection_check(ports, own_addresses, net_connections) ==
    LET connected == ConnectedFrom(net_connections, own_addresses, ports, 1)
    IN  IF connected # <<>> THEN Some(connected) ELSE None

\* str.splitlines() of a text whose only line boundary is "\n": a line ends
\* at each "\n", and what follows the last "\n" is a line unless it is empty.
RECURSIVE splitlinesFrom(_, _, _)
splitlinesFrom(text, i, line) ==
    IF i > Len(text) THEN (IF line = <<>> THEN <<>> ELSE <<line>>)
    ELSE IF text[i] = "\n"
         THEN <<line>> \o splitlinesFrom(text, i + 1, <<>>)
         ELSE splitlinesFrom(text, i + 1, Append(line, text[i]))

splitlines(text) == splitlinesFrom(text, 1, <<>>)

\* '\n'.join(lines)
RECURSIVE join(_)
join(lines) ==
    IF lines = <<>> THEN <<>>
    ELSE IF Len(lines) = 1 THEN lines[1]
         ELSE lines[1] \o <<"\n">> \o join(Tail(lines))

\* line.startswith('----')
startswithDash(line) == Len(line) >= 1 /\ line[1] = "-"

startswith(line) == Len(line) >= 4 /\ \A k \in 1..4 : line[k] = "-"

\* The loop of Smb.check over the lines of the output.
RECURSIVE SmbConnectionsFrom(_, _, _, _)
SmbConnectionsFrom(lines, i, start_seen, connections) ==
    IF i > Len(lines) THEN connections
    ELSE IF start_seen
         THEN SmbConnectionsFrom(lines, i + 1, TRUE,
                                 Append(connections, lines[i]))
         ELSE SmbConnectionsFrom(lines, i + 1, startswith(lines[i]),
                                 connections)

\* The first line of the reason of Smb.check, one character of the text.
SmbHeader == "SMB clients are connected:"

\* Smb.check(): `smbstatus -b` either fails (CalledProcessError, raised again
\* as SevereCheckError) or prints status_output.
Smb_check(failed, status_output) ==
    IF failed THEN [raised |-> TRUE, value |-> None]
    ELSE LET connections ==
                 SmbConnectionsFrom(splitlines(status_output), 1, FALSE, <<>>)
         IN  [raised |-> FALSE,
              value |-> IF connections # <<>>
                        THEN Some(<<SmbHeader, "\n">> \o join(connections))
                        ELSE None]

\* A compiled pattern is a sequence of literal characters and ".*" tokens.
RECURSIVE MatchesWhole(_, _)
MatchesWhole(regex, string) ==
    IF regex = <<>> THEN string = <<>>
    ELSE IF Head(regex) = ".*"
         THEN \E k \in 0..Len(string) :
                 MatchesWhole(Tail(regex), SubSeq(string, k + 1, Len(string)))
         ELSE /\ string # <<>>
              /\ Head(string) = Head(regex)
              /\ MatchesWhole(Tail(regex), Tail(string))

\* regex.fullmatch(string) is not None
fullmatchPrefix(regex, string) ==
    \E k \in 0..Len(string) : MatchesWhole(regex, SubSeq(string, 1, k))

fullmatch(regex, string) == MatchesWhole(regex, string)

\* psutil.users()
Sessions ==
    [name : {<<"f", "o", "o">>, <<"f", "o">>},
     terminal : {<<"p">>, <<"t">>},
     host : {<<"h">>, <<>>}]

\* The patterns a Users probe is configured with.
UsersConfigs ==
    [user_regex : {<<".*">>, <<"f", "o">>, <<"f", ".*">>, <<"n">>},
     terminal_regex : {<<".*">>, <<"p">>},
     host_regex : {<<".*">>, <<"h">>}]

RECURSIVE UsersFrom(_, _, _)
UsersFrom(self, users, i) ==
    IF i > Len(users) THEN None
    ELSE IF /\ fullmatch(self.user_regex, users[i].name)
            /\ fullmatch(self.terminal_regex, users[i].terminal)
            /\ fullmatch(self.host_regex, users[i].host)
         THEN Some(users[i])
         ELSE UsersFrom(self, users, i + 1)

\* Users.check(): the reason names the first session that matches.
Users_check(self, users) == UsersFrom(self, users, 1)

\* psutil.process_iter(): proc.name() raises NoSuchProcess for a process
\* that is gone.
Procs == [name : {"blubb", "nonmatching"}, gone : BOOLEAN]

\* The process names a Processes probe is configured with.
ProcessesConfigs == {<<"dummy", "blubb", "other">>, <<"dummy">>, <<>>}

\* The body of the loop of Processes.check for one process: the name of the
\* process that makes it return, if any.
ProcBodyNameOfGone(proc, processes) ==
    LET hits == {k \in 1..Len(processes) : processes[k] = proc.name}
    IN  IF hits = {} THEN None ELSE Some(processes[SetMin(hits)])

ProcBody(proc, processes) ==
    IF proc.gone THEN None
    ELSE LET hits == {k \in 1..Len(processes) : processes[k] = proc.name}
         IN  IF hits = {} THEN None ELSE Some(processes[SetMin(hits)])

RECURSIVE ProcessesFrom(_, _, _)
ProcessesFrom(processes, process_iter, i) ==
    IF i > Len(process_iter) THEN None
    ELSE LET r == ProcBody(process_iter[i], processes)
         IN  IF r # None THEN r
             ELSE ProcessesFrom(processes, process_iter, i + 1)

\* Processes.check()
Processes_check(processes, process_iter) ==
    ProcessesFrom(processes, process_iter, 1)

\* One probe, called once on what the system reports.
ProbeInit ==
    /\ cfg = [idle_time |-> MaxIdleTime, min_sleep_time |-> MaxMinSleepTime,
              wakeup_delta |-> MaxWakeupDelta, all_activities |-> FALSE]
    /\ idle_since = None
    /\ pc = "unit"
    /\ clock = 0
    /\ tick = NoTick
    /\ calls = <<>>
    /\ prev_blocked = FALSE
    /\ call = NoCall
    /\ general = [notify_cmd_wakeup |-> FALSE, notify_cmd_no_wakeup |-> FALSE]
    /\ shell = <<>>
    /\ prev_failed = FALSE
    /\ woke_up_file = FALSE
    /\ loop_locals = NoLoop
    /\ prev_tick = NoPrev

\* ActiveConnection(name, ports).check()
CallActiveConnection ==
    /\ pc = "unit"
    /\ \E ports \in {{10, 22, 30}, {32}},
          own_addresses \in SUBSET ({"AF_INET", "AF_INET6"}
                                    \X {"123.456.123.456"}),
          n \in 0..MaxEntries :
         \E net_connections \in [1..n -> Connections] :
            call' = [fn |-> "ActiveConnection.check",
                     args |-> [ports |-> ports,
                               own_addresses |-> own_addresses,
                               net_connections |-> net_connections],
                     result |-> ActiveConnection_check(ports, own_addresses,
                                                       net_connections)]
    /\ pc' = "returned"
    /\ UNCHANGED <<cfg, idle_since, clock, tick, calls, prev_blocked, general,
                   shell, prev_failed, woke_up_file, loop_locals, prev_tick>>

\* Smb(name).check()
CallSmb ==
    /\ pc = "unit"
    /\ \E failed \in BOOLEAN, n \in 0..MaxOutput :
         \E status_output \in [1..n -> {"-", "c", "\n"}] :
            /\ failed => n = 0
            /\ call' = [fn |-> "Smb.check",
                        args |-> [failed |-> failed,
                                  status_output |-> status_output],
                        result |-> Smb_check(failed, status_output)]
    /\ pc' = "returned"
    /\ UNCHANGED <<cfg, idle_since, clock, tick, calls, prev_blocked, general,
                   shell, prev_failed, woke_up_file, loop_locals, prev_tick>>

\* Users(name, user_regex, terminal_regex, host_regex).check()
CallUsers ==
    /\ pc = "unit"
    /\ \E self \in UsersConfigs, n \in 0..MaxEntries :
         \E users \in [1..n -> Sessions] :
            call' = [fn |-> "Users.check",
                     args |-> [self |-> self, users |-> users],
                     result |-> Users_check(self, users)]
    /\ pc' = "returned"
    /\ UNCHANGED <<cfg, idle_since, clock, tick, calls, prev_blocked, general,
                   shell, prev_failed, woke_up_file, loop_locals, prev_tick>>

\* Processes(name, processes).check()
CallProcesses ==
    /\ pc = "unit"
    /\ \E processes \in ProcessesConfigs, n \in 0..MaxEntries :
         \E process_iter \in [1..n -> Procs] :
            call' = [fn |-> "Processes.check",
                     args |-> [processes |-> processes,
                               process_iter |-> process_iter],
                     result |-> Processes_check(processes, process_iter)]
    /\ pc' = "returned"
    /\ UNCHANGED <<cfg, idle_since, clock, tick, calls, prev_blocked, general,
                   shell, prev_failed, woke_up_file, loop_locals, prev_tick>>

ProbeNext == CallActiveConnection \/ CallSmb \/ CallUsers \/ CallProcesses

ProbeSpec == ProbeInit /\ [][ProbeNext]_vars

\* C31: ActiveConnection.check returns a reason exactly when some connection
\* has a local (family, address) pair among the host's own interface
\* addresses, the status ESTABLISHED and a local port in the configured set;
\* the reason lists the local ports of exactly those connections.  The remote
\* end of a connection plays no part.
C31_ActiveConnectionMatches ==
    call.fn = "ActiveConnection.check" =>
        LET a == call.args
            hits == {i \in DOMAIN a.net_connections :
                        /\ <<a.net_connections[i].family,
                             a.net_connections[i].laddr[1]>>
                               \in a.own_addresses
                        /\ a.net_connections[i].status = "ESTABLISHED"
                        /\ a.net_connections[i].laddr[2] \in a.ports}
        IN  /\ (call.result # None) <=> (hits # {})
            /\ call.result # None =>
                 /\ Len(call.result[1]) = Cardinality(hits)
                 /\ \A k \in DOMAIN call.result[1] :
                       call.result[1][k] \in a.ports

\* The host is the server of one connection and the client of another; only
\* the first one counts.
C31_Witness ==
    /\ call.fn = "ActiveConnection.check"
    /\ Len(call.args.net_connections) = 2
    /\ call.args.net_connections[1].raddr[1] = "42.42.42.42"
    /\ call.args.net_connections[2].status = "NARF"
    /\ call.args.net_connections[2].raddr[1] = "123.456.123.456"
    /\ call.result = Some(<<22>>)

\* The lines of the output after its first line that starts with '----'.
AfterSeparator(status_output) ==
    LET lines == splitlines(status_output)
        seps == {i \in DOMAIN lines :
                    /\ Len(lines[i]) >= 4
                    /\ SubSeq(lines[i], 1, 4) = <<"-", "-", "-", "-">>}
    IN  IF seps = {} THEN <<>>
        ELSE SubSeq(lines, SetMin(seps) + 1, Len(lines))

\* text.split('\n'): the pieces between the line breaks of a text.
RECURSIVE splitFrom(_, _, _)
splitFrom(text, i, piece) ==
    IF i > Len(text) THEN <<piece>>
    ELSE IF text[i] = "\n"
         THEN <<piece>> \o splitFrom(text, i + 1, <<>>)
         ELSE splitFrom(text, i + 1, Append(piece, text[i]))

\* C32: when smbstatus has printed its output, Smb.check returns None exactly
\* when no line follows the first line starting with '----'; otherwise the
\* reason is one header line followed by exactly the lines after that
\* separator, so that it has one line more than there are such lines (counted
\* with splitlines, which needs the last of them not to be empty).
C32_SmbReasonIsLinesAfterSeparator ==
    (call.fn = "Smb.check" /\ ~call.args.failed) =>
        LET after == AfterSeparator(call.args.status_output)
            value == call.result.value
        IN  /\ ~call.result.raised
            /\ (value = None) <=> (after = <<>>)
            /\ value # None =>
                 /\ splitFrom(value[1], 1, <<>>) = <<<<SmbHeader>>>> \o after
                 /\ after[Len(after)] # <<>> =>
                      Len(splitlines(value[1])) = 1 + Len(after)

\* Two connection lines after the separator, a reason of three lines.
C32_Witness ==
    /\ call.fn = "Smb.check"
    /\ ~call.args.failed
    /\ Len(AfterSeparator(call.args.status_output)) = 2
    /\ call.result.value # None
    /\ Len(splitlines(call.result.value[1])) = 3

\* The sessions each of whose three fields is matched in full by its pattern.
MatchingSessions(self, users) ==
    {i \in DOMAIN users :
        /\ MatchesWhole(self.user_regex, users[i].name)
        /\ MatchesWhole(self.terminal_regex, users[i].terminal)
        /\ MatchesWhole(self.host_regex, users[i].host)}

\* C33: Users.check returns a reason exactly when some session has its user
\* name, its terminal and its host each fully matched by the configured
\* pattern, and the reason names the first such session; without sessions, or
\* when one of the patterns fails on every session, it returns None.
C33_UsersMatchesAllThree ==
    call.fn = "Users.check" =>
        LET a == call.args
            hits == MatchingSessions(a.self, a.users)
        IN  /\ (call.result # None) <=> (hits # {})
            /\ hits # {} => call.result = Some(a.users[SetMin(hits)])
            /\ a.users = <<>> => call.result = None
            /\ (\/ \A i \in DOMAIN a.users :
                      ~MatchesWhole(a.self.user_regex, a.users[i].name)
                \/ \A i \in DOMAIN a.users :
                      ~MatchesWhole(a.self.terminal_regex, a.users[i].terminal)
                \/ \A i \in DOMAIN a.users :
                      ~MatchesWhole(a.self.host_regex, a.users[i].host))
               => call.result = None

\* The pattern 'fo' matches a prefix of the user name 'foo' but not all of it:
\* no reason.
C33_Witness ==
    /\ call.fn = "Users.check"
    /\ call.args.self = [user_regex |-> <<"f", "o">>,
                         terminal_regex |-> <<".*">>, host_regex |-> <<".*">>]
    /\ Len(call.args.users) = 1
    /\ call.args.users[1].name = <<"f", "o", "o">>
    /\ call.result = None

\* C34: Processes.check returns a reason exactly when a running process whose
\* name can still be read has one of the configured names; a process that
\* disappears while being inspected is skipped and the ones after it are
\* still looked at.
C34_ProcessesMatchesByName ==
    call.fn = "Processes.check" =>
        LET a == call.args
            hits == {i \in DOMAIN a.process_iter :
                        /\ ~a.process_iter[i].gone
                        /\ \E k \in DOMAIN a.processes :
                              a.processes[k] = a.process_iter[i].name}
        IN  /\ (call.result # None) <=> (hits # {})
            /\ hits # {} =>
                 call.result = Some(a.process_iter[SetMin(hits)].name)

\* The first process is gone, the second one matches.
C34_Witness ==
    /\ call.fn = "Processes.check"
    /\ Len(call.args.process_iter) = 2
    /\ call.args.process_iter[1].gone
    /\ ~call.args.process_iter[2].gone
    /\ call.result = Some("blubb")

\* C36: when an exception other than TemporaryCheckError escapes from a probe
\* during Processor.iteration, the pass ends with idle_since as it was before
\* the pass, without a reset, and with no wake up scheduled, no notification
\* and no suspend command run.
C36_EscapingErrorChangesNothing ==
    (tick.valid /\ pc = "crashed") =>
        /\ \/ \E i \in DOMAIN tick.acts : tick.acts[i] = "Severe"
           \/ \E i \in DOMAIN tick.wakes : tick.wakes[i].k = "Severe"
        /\ idle_since = tick.pre_idle
        /\ shell = <<>>
        /\ Called("wakeup_fn") = {}
        /\ Called("sleep_fn") = {}
        /\ Called("_reset_state") = {}

\* A wake up probe fails on the pass after a resume, in a running idle
\* period and after every activity probe has answered: the idle period is
\* kept.
C36_Witness ==
    /\ tick.valid
    /\ pc = "crashed"
    /\ tick.just_woke_up
    /\ tick.pre_idle # None
    /\ \A i \in DOMAIN tick.acts : tick.acts[i] # "Severe"
    /\ idle_since = tick.pre_idle

\* C35: with idle_time >= 0 the suspend callback is never invoked on the pass
\* that sets idle_since.  A pass that invokes it is at least the second pass
\* without activity and without a resume since the start, the last resume,
\* the last activity or the last suspend, and its timestamp is more than
\* idle_time after that of the first such pass.
C35_SuspendNeedsTwoQuietTicks ==
    (tick.valid /\ Called("sleep_fn") # {}) =>
        /\ tick.pre_idle # None
        /\ ~tick.just_woke_up /\ Reasons = {}
        /\ prev_tick.valid
        /\ prev_tick.quiet >= 1
        /\ prev_tick.first_quiet # None
        /\ tick.timestamp - prev_tick.first_quiet[1] > cfg.idle_time

\* With idle_time = 0: a suspend, then the pass that starts the next idle
\* period, then a pass one second later that suspends again.
C35_Witness ==
    /\ tick.valid
    /\ cfg.idle_time = 0
    /\ Called("sleep_fn") # {}
    /\ prev_tick.quiet = 1
    /\ prev_tick.pre_idle = None
    /\ prev_tick.first_quiet # None
    /\ prev_tick.first_quiet[1] > 0
    /\ tick.timestamp = prev_tick.first_quiet[1] + 1

-----------------------------------------------------------------------------
\* The monolithic script's loop, run pass by pass beside the Processor.

\* The locals of the script's loop() between passes, and what the last pass
\* did: whether it called sleep_fn, when it read the clock for its
\* comparison, and whether some pass so far has started an idle period with
\* the comparison's reading more than idle_time after the stored one.
NoLegacy ==
    [idle_since |-> None, sleep_fn |-> FALSE, now |-> 0, skewed |-> FALSE]

\* One pass of the script's loop.  The probes are run as execute_checks runs
\* them (the same statements); without a match idle_since is set from one
\* reading of time.time() (set_at) when it is None and compared with a second
\* reading (now); after sleep_fn() idle_since is None.
legacy_pass(idle_since_, set_at, now, outcomes, all_checks, idle_time) ==
    LET m == execute_checks(outcomes, all_checks, <<>>)
        since == IF idle_since_ = None THEN set_at ELSE idle_since_[1]
    IN  IF m.raised
        THEN [idle_since |-> idle_since_, sleep_fn |-> FALSE, raised |-> TRUE]
        ELSE IF m.matched
        THEN [idle_since |-> None, sleep_fn |-> FALSE, raised |-> FALSE]
        ELSE IF now - since > idle_time
        THEN [idle_since |-> None, sleep_fn |-> TRUE, raised |-> FALSE]
        ELSE [idle_since |-> Some(since), sleep_fn |-> FALSE,
              raised |-> FALSE]

\* Both daemons start with the same idle_time and the same probes; the
\* Processor has no wake up probes.
LegacyInit ==
    /\ cfg \in {c \in Configs : /\ c.min_sleep_time = MaxMinSleepTime
                                /\ c.wakeup_delta = 0}
    /\ idle_since = None
    /\ pc = "iterate"
    /\ clock = 0
    /\ tick = NoTick
    /\ calls = <<>>
    /\ prev_blocked = FALSE
    /\ call = NoCall
    /\ general = [notify_cmd_wakeup |-> FALSE, notify_cmd_no_wakeup |-> FALSE]
    /\ shell = <<>>
    /\ prev_failed = FALSE
    /\ woke_up_file = FALSE
    /\ loop_locals = NoLegacy
    /\ prev_tick = NoPrev

\* One pass of each: the probes answer both alike, the Processor is given
\* the first clock reading of the script's pass and just_woke_up = False.
\* The script reads the clock a second time only on a pass that starts an
\* idle period.
LegacyPass ==
    /\ pc = "iterate"
    /\ \E set_at \in clock..MaxTime, acts \in ActivityInputs :
         \E now \in set_at..MaxTime :
            /\ loop_locals.idle_since # None => now = set_at
            /\ LET it == iteration(cfg, idle_since, set_at, FALSE, acts, <<>>)
                   since == IF idle_since = None
                            THEN Some(set_at) ELSE idle_since
                   lg == legacy_pass(loop_locals.idle_since, set_at, now,
                                     acts, cfg.all_activities, cfg.idle_time)
               IN  /\ tick' = [valid |-> TRUE, timestamp |-> set_at,
                               just_woke_up |-> FALSE, acts |-> acts,
                               wakes |-> <<>>, pre_idle |-> idle_since]
                   /\ loop_locals' =
                        [idle_since |-> lg.idle_since,
                         sleep_fn |-> lg.sleep_fn,
                         now |-> now,
                         skewed |-> \/ loop_locals.skewed
                                    \/ /\ loop_locals.idle_since = None
                                       /\ ~lg.raised
                                       /\ lg.idle_since # None \/ lg.sleep_fn
                                       /\ now - set_at > cfg.idle_time]
                   /\ clock' = now
                   /\ \E rcs \in ExitCodesOf(it.log, general) :
                        LET r == RunCallbacksFrom(it, since, general, rcs, 1,
                                                  <<>>)
                        IN  /\ idle_since' = r.idle_since
                            /\ calls' = r.log
                            /\ shell' = r.shell
                            /\ pc' = IF r.raised \/ lg.raised
                                     THEN "crashed" ELSE "sleep"
    /\ UNCHANGED <<cfg, prev_blocked, call, general, prev_failed,
                   woke_up_file, prev_tick>>

\* The passes are over, the next ones start.
LegacySleep ==
    /\ pc = "sleep"
    /\ pc' = "iterate"
    /\ tick' = NoTick
    /\ calls' = <<>>
    /\ shell' = <<>>
    /\ loop_locals' = [loop_locals EXCEPT !.sleep_fn = FALSE]
    /\ UNCHANGED <<cfg, idle_since, clock, prev_blocked, call, general,
                   prev_failed, woke_up_file, prev_tick>>

LegacyNext == LegacyPass \/ LegacySleep

LegacySpec == LegacyInit /\ [][LegacyNext]_vars

\* The Processor and the script did the same on this pass: both called the
\* suspend callback or neither did, and they end with equal idle_since.
SameDecision ==
    /\ (Called("sleep_fn") # {}) <=> loop_locals.sleep_fn
    /\ idle_since = loop_locals.idle_since

\* C39 as stated: without wake up probes and with just_woke_up always False,
\* the Processor issues suspend on exactly the passes on which the script
\* does, and the two keep equal idle_since between passes.
C39_LegacySameDecisions == tick.valid => SameDecision

\* C39 as amended: the same, as long as on every pass that started an idle
\* period the script's second clock reading was not more than idle_time after
\* its first one.
C39_LegacySameDecisionsUnlessSkewed ==
    (tick.valid /\ ~loop_locals.skewed) => SameDecision

\* Both suspend on a pass two seconds after the one that started the idle
\* period, with idle_time = 1.
C39_Witness ==
    /\ tick.valid
    /\ ~loop_locals.skewed
    /\ cfg.idle_time = 1
    /\ tick.pre_idle # None
    /\ tick.timestamp = tick.pre_idle[1] + 2
    /\ loop_locals.sleep_fn
    /\ Called("sleep_fn") # {}

\* C38: with the resume hook writing the file at any point between the
\* steps of loop(), no resume is lost and none ends the loop: removing the
\* file never fails; a pass whose test found the file runs
\* Processor.iteration with just_woke_up true; and a file written since the
\* last test is still there for the next test, unless the pass in progress
\* had found the file at its own test.
C38_NoResumeLostNoCrash ==
    /\ ~loop_locals.remove_failed
    /\ PassEnded => (tick.valid /\ tick.just_woke_up = loop_locals.just_woke_up)
    /\ (loop_locals.written /\ running /\ pc # "done") =>
           (woke_up_file \/ loop_locals.just_woke_up)

-----------------------------------------------------------------------------
\* The daemon running without end.  Processor.iteration uses timestamps only
\* in differences (timestamp - idle_since, wakeup_at - timestamp), so time is
\* counted from the pass before: every pass starts at clock = 0, its
\* timestamp is the time elapsed since the pass before, and time.sleep moves
\* the origin to that timestamp.  An idle period longer than every idle_time
\* is kept as MaxIdleTime + 1 seconds long.

\* loop() called without run_for.
LiveInit ==
    /\ Init
    /\ loop_locals.run_for = None

\* processor.iteration(now, just_woke_up), `elapsed` seconds after the pass
\* before (0: the clock has not moved).
LiveIterate ==
    /\ pc = "iterate"
    /\ \E elapsed \in 0..(MaxIdleTime + 1), just_woke_up \in BOOLEAN :
         /\ clock' = elapsed
         /\ \E acts \in [DOMAIN LoopActivityNames -> ActivityOutcomes],
               wakes \in [DOMAIN LoopWakeupNames ->
                            [k : {"None", "Temporary", "Severe"}, at : {0}]
                            \cup [k : {"At"},
                                  at : elapsed..(elapsed + MaxAhead)]] :
              /\ tick' = [valid |-> TRUE, timestamp |-> elapsed,
                          just_woke_up |-> just_woke_up,
                          acts |-> acts, wakes |-> wakes,
                          pre_idle |-> idle_since]
              /\ LET it == iteration(cfg, idle_since, elapsed, just_woke_up,
                                     acts, wakes)
                     since == IF idle_since = None
                              THEN Some(elapsed) ELSE idle_since
                 IN  \E rcs \in ExitCodesOf(it.log, general) :
                       LET r == RunCallbacksFrom(it, since, general, rcs, 1,
                                                 <<>>)
                       IN  /\ idle_since' = r.idle_since
                           /\ calls' = r.log
                           /\ shell' = r.shell
                           /\ pc' = IF r.raised THEN "crashed" ELSE "sleep"
    /\ UNCHANGED <<cfg, prev_blocked, call, general, prev_failed,
                   woke_up_file, loop_locals, prev_tick>>

\* time.sleep(interval): the pass is over; time is counted from it.
LiveSleep ==
    /\ pc = "sleep"
    /\ pc' = "iterate"
    /\ clock' = 0
    /\ idle_since' = IF idle_since = None THEN None
                     ELSE IF idle_since[1] - clock < 0 - (MaxIdleTime + 1)
                          THEN Some(0 - (MaxIdleTime + 1))
                          ELSE Some(idle_since[1] - clock)
    /\ prev_blocked' = BlockedByFloor
    /\ prev_failed' = CommandFailed("suspend_cmd")
    /\ tick' = NoTick
    /\ calls' = <<>>
    /\ shell' = <<>>
    /\ UNCHANGED <<cfg, call, general, woke_up_file, loop_locals, prev_tick>>

LiveNext == LiveIterate \/ LiveSleep

LiveSpec == LiveInit /\ [][LiveNext]_vars

\* The loop keeps running: whenever it can take a step it takes one.
FairLiveSpec == LiveSpec /\ WF_vars(LiveNext)

\* What the pass just made met: no activity probe matched, just_woke_up was
\* false, the earliest wake up was absent or at least min_sleep_time +
\* wakeup_delta after the timestamp, and the timestamp was later than that of
\* the pass before.
LiveConditions ==
    tick.valid =>
        /\ Reasons = {}
        /\ ~tick.just_woke_up
        /\ \/ FutureWakeups = {}
           \/ SetMin(FutureWakeups) - tick.timestamp
                >= cfg.min_sleep_time + cfg.wakeup_delta
        /\ tick.timestamp > 0

\* C37: when the passes go on without end with timestamps that increase and
\* from some pass on no activity probe matches, just_woke_up is false and
\* the earliest wake up is absent or at least min_sleep_time + wakeup_delta
\* ahead, the suspend callback is invoked again and again.
C37_SuspendsAgainAndAgain ==
    (<>[]LiveConditions /\ []<>(tick.valid /\ pc = "sleep"))
        => []<>(Called("sleep_fn") # {})

\* A pass that suspends with a wake up exactly min_sleep_time + wakeup_delta
\* ahead, in an idle period that the pass before had started.
C37_Witness ==
    /\ tick.valid
    /\ LiveConditions
    /\ cfg.min_sleep_time = MaxMinSleepTime
    /\ cfg.wakeup_delta = MaxWakeupDelta
    /\ tick.pre_idle # None
    /\ FutureWakeups # {}
    /\ SetMin(FutureWakeups) - tick.timestamp
         = cfg.min_sleep_time + cfg.wakeup_delta
    /\ Called("wakeup_fn") # {}
    /\ Called("sleep_fn") # {}

====
